---------------------------- MODULE Spec2Model ----------------------------
(***************************************************************************)
(* PDF_MATCHA.py: text normalisation (preprocess_text), content-unit       *)
(* extraction (extract_content_units) and the greedy cross-page matcher    *)
(* (compare_content_units) of PDFComparerApp; the tiered locator           *)
(* (find_text_on_page, highlight_text_on_page); a compare_pdfs run from    *)
(* start_comparison to its callback; and the button handlers with their    *)
(* worker threads.                                                         *)
(*                                                                         *)
(* A Python str is a sequence of one-character strings; a character that   *)
(* is not ASCII is written by its code point ("U+FB01").  A float that the *)
(* code compares or returns is the exact fraction [n, d] it rounds: every  *)
(* fraction here has a denominator far below 2^53, so two of them compare  *)
(* as their floats do.                                                     *)
(***************************************************************************)
EXTENDS Integers, Sequences, FiniteSets, TLC

VARIABLES
    comparison_config,  \* self.comparison_config (the keys the core reads)
    pc,                 \* where the modelled call stands
    nz_text,            \* preprocess_text: the argument
    nz_once,            \* preprocess_text(nz_text)
    nz_twice,           \* preprocess_text(preprocess_text(nz_text))
    old_text,           \* compare_pdfs: old_text (text_by_page of the first PDF)
    new_text,           \* compare_pdfs: new_text
    old_units,          \* compare_content_units: old_units
    new_units,          \* compare_content_units: new_units
    i,                  \* number of old units the outer loop has processed
    examined,           \* calls of ratio() the inner loop made for the last old unit
    found_match,        \* inner loop locals, as the last iteration left them
    best_match_idx,
    best_similarity,
    unmatched_new,      \* list(new_units): positions (references) into new_units
    old_matched,
    matched_pairs,      \* <<[old, new, similarity]>>: positions and the ratio
    removed,            \* positions into old_units, in append order
    added,              \* positions into new_units
    similarity_scores,
    runs_left,          \* calls of compare_content_units still to be made
    returned,           \* what each finished call returned, in call order
    hl_page,            \* highlight_text_on_page: page (the lines it shows)
    hl_text,            \* highlight_text_on_page: text
    hl_fuzzy,           \* highlight_text_on_page: fuzzy
    hl_color,           \* highlight_text_on_page: color
    queries,            \* every page.search_for call so far: <<[tier, query]>>
    instances,          \* find_text_on_page: the rectangles found so far
    annotations,        \* page.add_highlight_annot calls: <<[rect, color]>>
    hl_result,          \* what highlight_text_on_page returned ("none" before)
    pdf1_doc,           \* the pages of the file at self.pdf1_path
    pdf2_doc,           \* the pages of the file at self.pdf2_path
    run,                \* comparison runs started so far
    comparison_complete,\* self.comparison_complete
    stored,             \* self.old_doc, new_doc, removed, added, similarity_scores
    stored_before,      \* stored as it was when the current run started
    hl_idx,             \* compare_pdfs: idx of the highlight loop under way
    hl_outcomes,        \* compare_pdfs: what each highlight call of the run did
    saved,              \* compare_pdfs: the documents the run has saved
    notifications,      \* callbacks handed to root.after: <<[run, callback]>>
    error_text,         \* compare_pdfs: what raised ("" when nothing did)
    progress,           \* compare_pdfs: the update_progress calls of the run
    pdf1_path,          \* self.pdf1_path: "" (None or empty) or "file"
    pdf2_path,          \* self.pdf2_path
    btn_compare,        \* self.btn_compare['state']
    btn_extract_tables, \* self.btn_extract_tables['state']
    btn_report,         \* self.btn_report['state']
    table_extraction_complete, \* self.table_extraction_complete
    threads,            \* the worker threads started so far: [kind, pc]
    after_queue         \* callbacks handed to root.after and not yet run

vars == <<comparison_config, pc, nz_text, nz_once, nz_twice, old_text, new_text,
          old_units, new_units, i, examined, found_match, best_match_idx,
          best_similarity, unmatched_new, old_matched, matched_pairs, removed,
          added, similarity_scores, runs_left, returned,
          hl_page, hl_text, hl_fuzzy, hl_color, queries, instances, annotations,
          hl_result, pdf1_doc, pdf2_doc, run, comparison_complete, stored,
          stored_before, hl_idx, hl_outcomes, saved, notifications, error_text,
          progress, pdf1_path, pdf2_path, btn_compare, btn_extract_tables, btn_report,
          table_extraction_complete, threads, after_queue>>

normVars == <<nz_text, nz_once, nz_twice>>
docVars == <<old_text, new_text>>
unitVars == <<old_units, new_units>>
loopVars == <<i, examined, found_match, best_match_idx, best_similarity, unmatched_new,
              old_matched, matched_pairs, removed>>
resultVars == <<added, similarity_scores>>
locateVars == <<hl_page, hl_text, hl_fuzzy, hl_color, queries, instances,
                annotations, hl_result>>
\* the state of the calls that the matcher and the normaliser never touch
runVars == <<pdf1_doc, pdf2_doc, run, comparison_complete, stored, stored_before,
             hl_idx, hl_outcomes, saved, notifications, error_text, progress>>
pathVars == <<pdf1_path, pdf2_path>>
buttonVars == <<btn_compare, btn_extract_tables, btn_report>>
uiVars == <<pathVars, buttonVars, table_extraction_complete, threads, after_queue>>
otherVars == <<locateVars, runVars, uiVars>>

----------------------------------------------------------------------------
(* Bounds of the model                                                     *)

MaxLen == 4       \* longest string drawn for preprocess_text
MaxPages == 2     \* most pages of a document
MaxUnits == 2     \* most units of a list handed to compare_content_units directly
MaxRuns == 2      \* calls of compare_content_units on the same inputs
MaxPageLines == 2 \* most lines of a page handed to highlight_text_on_page
MaxRunPages == 1  \* most pages of a file that compare_pdfs opens
MaxComparisons == 2 \* comparison runs started one after the other
MaxThreads == 2   \* worker threads started in one session of the application

----------------------------------------------------------------------------
(* Generic sequence helpers (Python list / str primitives)                 *)

Range(s) == {s[k] : k \in DOMAIN s}

\* s[lo:hi], 0-based and half-open as in Python
Slice(s, lo, hi) == SubSeq(s, lo + 1, hi)

\* s.startswith(p, at), 0-based
StartsWithAt(s, p, at) ==
    /\ at + Len(p) <= Len(s)
    /\ \A k \in 1..Len(p) : s[at + k] = p[k]

\* all strings over alphabet of length at most n
StringsUpTo(alphabet, n) == UNION {[1..k -> alphabet] : k \in 0..n}

\* sep.join(parts)
RECURSIVE Join(_, _)
Join(parts, sep) ==
    IF parts = <<>> THEN <<>>
    ELSE IF Len(parts) = 1 THEN parts[1]
    ELSE parts[1] \o sep \o Join(Tail(parts), sep)

\* whether sub is a subsequence of full (order kept, gaps allowed)
RECURSIVE IsSubseq(_, _)
IsSubseq(sub, full) ==
    IF sub = <<>> THEN TRUE
    ELSE IF full = <<>> THEN FALSE
    ELSE IF Head(sub) = Head(full) THEN IsSubseq(Tail(sub), Tail(full))
    ELSE IsSubseq(sub, Tail(full))

StrictlyIncreasing(s) == \A k \in 1..(Len(s) - 1) : s[k] < s[k + 1]

----------------------------------------------------------------------------
(* preprocess_text                                                         *)

\* str.isspace / the regex class \s, on the characters of the model
IsSpace(c) == c \in {" ", "\n", "\t"}

\* str.lower, character by character
LowerChar(c) == IF c = "A" THEN "a" ELSE IF c = "B" THEN "b" ELSE c

Lower(text) == [k \in DOMAIN text |-> LowerChar(text[k])]

\* text.replace(old, new): leftmost, non-overlapping occurrences, old non-empty
RECURSIVE ReplaceFrom(_, _, _, _)
ReplaceFrom(text, old, new, at) ==
    IF at >= Len(text) THEN <<>>
    ELSE IF StartsWithAt(text, old, at)
         THEN new \o ReplaceFrom(text, old, new, at + Len(old))
         ELSE <<text[at + 1]>> \o ReplaceFrom(text, old, new, at + 1)

Replace(text, old, new) == ReplaceFrom(text, old, new, 0)

\* the dict `replacements`, in insertion order.  The source line of the quotes
\* holds only straight quotes, so Python reads its first three quotes as the
\* start of a triple-quoted key: the keys of that line are the 7 characters
\*   : "'",<space>   and the double quote (mapped to itself).
replacements ==
    << << <<"U+FB01">>, <<"f", "i">> >>,
       << <<"U+FB02">>, <<"f", "l">> >>,
       << <<"U+FB00">>, <<"f", "f">> >>,
       << <<"U+FB03">>, <<"f", "f", "i">> >>,
       << <<"U+FB04">>, <<"f", "f", "l">> >>,
       << <<"U+2013">>, <<"-">> >>,
       << <<"U+2014">>, <<"-">> >>,
       << <<"U+2212">>, <<"-">> >>,
       << <<":", " ", "\"", "'", "\"", ",", " ">>, <<"'">> >>,
       << <<"\"">>, <<"\"">> >>,
       << <<"U+2026">>, <<".", ".", ".">> >>,
       << <<"U+200B">>, <<>> >>,
       << <<"U+200C">>, <<>> >>,
       << <<"U+200D">>, <<>> >>,
       << <<"U+FEFF">>, <<>> >> >>

\* for old, new in replacements.items(): text = text.replace(old, new)
RECURSIVE ApplyReplacements(_, _)
ApplyReplacements(text, k) ==
    IF k > Len(replacements) THEN text
    ELSE ApplyReplacements(Replace(text, replacements[k][1], replacements[k][2]), k + 1)

\* re.sub(r'\s+', ' ', text), scanning from 0-based offset at
RECURSIVE CollapseFrom(_, _)
CollapseFrom(text, at) ==
    IF at >= Len(text) THEN <<>>
    ELSE IF IsSpace(text[at + 1])
         THEN IF at + 1 < Len(text) /\ IsSpace(text[at + 2])
              THEN CollapseFrom(text, at + 1)
              ELSE <<" ">> \o CollapseFrom(text, at + 1)
         ELSE <<text[at + 1]>> \o CollapseFrom(text, at + 1)

CollapseWhitespace(text) == CollapseFrom(text, 0)

\* text.strip()
RECURSIVE LStrip(_)
LStrip(text) ==
    IF text # <<>> /\ IsSpace(Head(text)) THEN LStrip(Tail(text)) ELSE text

RECURSIVE RStrip(_)
RStrip(text) ==
    IF text # <<>> /\ IsSpace(text[Len(text)])
    THEN RStrip(SubSeq(text, 1, Len(text) - 1))
    ELSE text

Strip(text) == RStrip(LStrip(text))

\* re.sub(r'[,;:"\']', ' ', text)
MinorPunctuation == {",", ";", ":", "\"", "'"}

PunctuationToSpace(text) ==
    [k \in DOMAIN text |-> IF text[k] \in MinorPunctuation THEN " " ELSE text[k]]

\* EnhancedPreprocess without step 4's second whitespace normalisation
EnhancedPreprocessOneCollapse(text) ==
    Strip(PunctuationToSpace(CollapseWhitespace(ApplyReplacements(Lower(text), 1))))

\* the branch taken when enable_enhanced_preprocessing is false
BasicPreprocess(text) == Strip(CollapseWhitespace(text))

\* the enhanced branch, steps 1 to 5
EnhancedPreprocess(text) ==
    Strip(CollapseWhitespace(PunctuationToSpace(
        CollapseWhitespace(ApplyReplacements(Lower(text), 1)))))

preprocess_text(text, enhanced) ==
    IF ~enhanced THEN BasicPreprocess(text) ELSE EnhancedPreprocess(text)

----------------------------------------------------------------------------
(* extract_content_units                                                   *)

\* first 0-based offset >= at whose character is not whitespace (Len if none)
RECURSIVE SpaceRunEnd(_, _)
SpaceRunEnd(text, at) ==
    IF at < Len(text) /\ IsSpace(text[at + 1]) THEN SpaceRunEnd(text, at + 1) ELSE at

\* end (exclusive) of the match of \n\s*\n that starts at offset at, or -1.
\* \s* is greedy and backtracks: the match ends at the last newline of the
\* whitespace run that follows the first newline.
SeparatorEnd(text, at) ==
    IF text[at + 1] # "\n" THEN -1
    ELSE LET stop == SpaceRunEnd(text, at + 1)
             ends == {e \in (at + 1)..(stop - 1) : text[e + 1] = "\n"}
         IN IF ends = {} THEN -1
            ELSE (CHOOSE e \in ends : \A f \in ends : f <= e) + 1

\* re.split(r'\n\s*\n', text): start is where the current piece began
RECURSIVE SplitFrom(_, _, _)
SplitFrom(text, start, at) ==
    IF at >= Len(text) THEN <<Slice(text, start, Len(text))>>
    ELSE LET e == SeparatorEnd(text, at)
         IN IF e > 0
            THEN <<Slice(text, start, at)>> \o SplitFrom(text, e, e)
            ELSE SplitFrom(text, start, at + 1)

SplitParagraphs(page_text) == SplitFrom(page_text, 0, 0)

\* KeepParagraph with >= in place of >
KeepParagraphAtLeast(processed, min_length) ==
    processed # <<>> /\ Len(processed) >= min_length

\* if processed and len(processed) > min_length
KeepParagraph(processed, min_length) ==
    processed # <<>> /\ Len(processed) > min_length

\* content_units.append((processed, page_num, original))
AppendUnit(content_units, unit) == Append(content_units, unit)

\* the inner loop over the paragraphs of one page, from paragraph k on
RECURSIVE ExtractParagraphs(_, _, _, _, _)
ExtractParagraphs(content_units, paragraphs, k, page_num, config) ==
    IF k > Len(paragraphs) THEN content_units
    ELSE LET original == paragraphs[k]
             processed == preprocess_text(original, config.enable_enhanced_preprocessing)
             next == IF KeepParagraph(processed, config.min_meaningful_text_length)
                     THEN AppendUnit(content_units,
                                     [text |-> processed, page |-> page_num,
                                      original |-> original])
                     ELSE content_units
         IN ExtractParagraphs(next, paragraphs, k + 1, page_num, config)

\* the outer loop over enumerate(text_by_page), from page page_num (0-based) on
RECURSIVE ExtractPages(_, _, _, _)
ExtractPages(content_units, text_by_page, page_num, config) ==
    IF page_num >= Len(text_by_page) THEN content_units
    ELSE ExtractPages(
             ExtractParagraphs(content_units, SplitParagraphs(text_by_page[page_num + 1]),
                               1, page_num, config),
             text_by_page, page_num + 1, config)

extract_content_units(text_by_page, config) == ExtractPages(<<>>, text_by_page, 0, config)

----------------------------------------------------------------------------
(* difflib.SequenceMatcher(None, a, b).ratio(), as compare_content_units   *)
(* calls it.  No junk function is given, and the automatic junk heuristic  *)
(* needs len(b) >= 200, beyond every string of the model.                  *)

\* fractions n/d with d > 0
Frac(n, d) == [n |-> n, d |-> d]
FracLess(x, y) == x.n * y.d < y.n * x.d
FracLeq(x, y) == x.n * y.d <= y.n * x.d
FracAdd(x, y) == Frac(x.n * y.d + y.n * x.d, x.d * y.d)
FracTimes(x, k) == Frac(x.n * k, x.d)
Percent(p) == Frac(p, 100)

\* length of the longest common run of a[ia:ahi] and b[ib:bhi] from their starts
RECURSIVE CommonRun(_, _, _, _, _, _)
CommonRun(a, b, ia, ib, ahi, bhi) ==
    IF ia < ahi /\ ib < bhi /\ a[ia + 1] = b[ib + 1]
    THEN 1 + CommonRun(a, b, ia + 1, ib + 1, ahi, bhi)
    ELSE 0

\* least element of a non-empty set of integers
Least(S) == CHOOSE m \in S : \A k \in S : m <= k

\* greatest element of a non-empty set of integers
Greatest(S) == CHOOSE m \in S : \A k \in S : k <= m

\* find_longest_match(alo, ahi, blo, bhi) with no junk: (ia, ib, size) with
\* a[ia:ia+size] == b[ib:ib+size], size greatest; of those blocks the one with
\* ia least; of those the one with ib least; (alo, blo, 0) when nothing matches
FindLongestMatch(a, b, alo, ahi, blo, bhi) ==
    LET rows == alo..(ahi - 1)
        cols == blo..(bhi - 1)
        sizes == {CommonRun(a, b, p[1], p[2], ahi, bhi) : p \in rows \X cols}
        size == IF sizes = {} THEN 0 ELSE Greatest(sizes)
    IN IF size = 0 THEN [ia |-> alo, ib |-> blo, size |-> 0]
       ELSE LET ia == Least({r \in rows :
                        \E c \in cols : CommonRun(a, b, r, c, ahi, bhi) = size})
                ib == Least({c \in cols : CommonRun(a, b, ia, c, ahi, bhi) = size})
            IN [ia |-> ia, ib |-> ib, size |-> size]

\* sum of the sizes of get_matching_blocks() within a[alo:ahi], b[blo:bhi]
RECURSIVE MatchedChars(_, _, _, _, _, _)
MatchedChars(a, b, alo, ahi, blo, bhi) ==
    LET m == FindLongestMatch(a, b, alo, ahi, blo, bhi)
    IN IF m.size = 0 THEN 0
       ELSE m.size
            + (IF alo < m.ia /\ blo < m.ib
               THEN MatchedChars(a, b, alo, m.ia, blo, m.ib) ELSE 0)
            + (IF m.ia + m.size < ahi /\ m.ib + m.size < bhi
               THEN MatchedChars(a, b, m.ia + m.size, ahi, m.ib + m.size, bhi) ELSE 0)

\* ratio(): 2.0 * matches / (len(a) + len(b)), and 1.0 when both are empty
Ratio(a, b) ==
    IF Len(a) + Len(b) = 0 THEN Frac(1, 1)
    ELSE Frac(2 * MatchedChars(a, b, 0, Len(a), 0, Len(b)), Len(a) + Len(b))

----------------------------------------------------------------------------
(* compare_content_units: the matching loop                                *)

\* similarity >= self.comparison_config["exact_match_threshold"]
Qualifies(similarity, config) == FracLeq(config.exact_match_threshold, similarity)

\* the literal 0.7 of `best_similarity > 0.7`
PartialMatchFloor == Frac(7, 10)

\* for j, (new_text, ...) in enumerate(unmatched_new): from candidate jj (0-based)
\* on, with the locals best_match_idx and best_similarity as they stand.  cands
\* are the processed texts of unmatched_new, in its current order.
RECURSIVE ScanFrom(_, _, _, _, _, _)
ScanFrom(otext, cands, jj, best_idx, best_sim, config) ==
    IF jj >= Len(cands)
    THEN [found |-> FALSE, j |-> -1, similarity |-> Frac(0, 1), examined |-> jj,
          best_match_idx |-> best_idx, best_similarity |-> best_sim]
    ELSE LET similarity == Ratio(otext, cands[jj + 1])
             better == FracLess(best_sim, similarity)
             idx == IF better THEN jj ELSE best_idx
             sim == IF better THEN similarity ELSE best_sim
         IN IF Qualifies(similarity, config)
            THEN [found |-> TRUE, j |-> jj, similarity |-> similarity,
                  examined |-> jj + 1,
                  best_match_idx |-> idx, best_similarity |-> sim]
            ELSE ScanFrom(otext, cands, jj + 1, idx, sim, config)

\* ScanCandidates without the break: every candidate is examined and the one
\* with the greatest similarity (the first of them) is matched if it qualifies
ScanCandidatesGlobalBest(otext, cands, config) ==
    LET all == ScanFrom(otext, cands, 0, -1, Frac(0, 1), [exact_match_threshold |-> Frac(2, 1)])
    IN IF all.best_match_idx >= 0 /\ Qualifies(all.best_similarity, config)
       THEN [all EXCEPT !.found = TRUE, !.j = all.best_match_idx,
                        !.similarity = all.best_similarity]
       ELSE all

\* the inner loop, entered with best_match_idx = -1 and best_similarity = 0
ScanCandidates(otext, cands, config) ==
    ScanFrom(otext, cands, 0, -1, Frac(0, 1), config)

\* PopAt with the pop left out
PopAtNothing(list, jj) == list

\* PopAt as a swap-remove: the last entry takes the place of entry jj
PopAtSwapRemove(list, jj) ==
    IF jj + 1 = Len(list) THEN SubSeq(list, 1, jj)
    ELSE [SubSeq(list, 1, Len(list) - 1) EXCEPT ![jj + 1] = list[Len(list)]]

\* PopAt as pop(): the last entry is removed, whichever was matched
PopAtLast(list, jj) == SubSeq(list, 1, Len(list) - 1)

\* unmatched_new.pop(j), j 0-based
PopAt(list, jj) == SubSeq(list, 1, jj) \o SubSeq(list, jj + 2, Len(list))

\* IsPartialMatch with >= in place of >: a best similarity of exactly 0.7 pairs
IsPartialMatchAtFloor(scan) ==
    ~scan.found /\ scan.best_match_idx >= 0
    /\ FracLeq(PartialMatchFloor, scan.best_similarity)

\* not found_match and best_match_idx >= 0 and best_similarity > 0.7
IsPartialMatch(scan) ==
    ~scan.found /\ scan.best_match_idx >= 0
    /\ FracLess(PartialMatchFloor, scan.best_similarity)

\* PairsAfter whose partial-match branch pairs the candidate examined last
\* instead of unmatched_new[best_match_idx]
PairsAfterLastExamined(pairs, at, unmatched, scan) ==
    IF scan.found
    THEN Append(pairs, [old |-> at, new |-> unmatched[scan.j + 1],
                        similarity |-> scan.similarity])
    ELSE IF IsPartialMatch(scan)
    THEN Append(pairs, [old |-> at, new |-> unmatched[Len(unmatched)],
                        similarity |-> scan.best_similarity])
    ELSE pairs

\* the appends to matched_pairs of one iteration; at is the position of the old
\* unit, unmatched the list the scan ran over
PairsAfter(pairs, at, unmatched, scan) ==
    IF scan.found
    THEN Append(pairs, [old |-> at, new |-> unmatched[scan.j + 1],
                        similarity |-> scan.similarity])
    ELSE IF IsPartialMatch(scan)
    THEN Append(pairs, [old |-> at, new |-> unmatched[scan.best_match_idx + 1],
                        similarity |-> scan.best_similarity])
    ELSE pairs

\* RemovedAfter with the append of the partial-match branch left out
RemovedAfterNoPartial(list, at, scan) ==
    IF IsPartialMatch(scan) THEN list
    ELSE IF ~scan.found THEN Append(list, at)
    ELSE list

\* RemovedAfter with the append outside the if/elif: every old unit is removed
RemovedAfterAlways(list, at, scan) == Append(list, at)

\* RemovedAfter with the if/elif inside the inner loop: nothing is appended
\* for an old unit whose scan examined no candidate
RemovedAfterInsideScan(list, at, scan) ==
    IF scan.examined = 0 THEN list
    ELSE IF IsPartialMatch(scan) THEN Append(list, at)
    ELSE IF ~scan.found THEN Append(list, at)
    ELSE list

\* the appends to removed of one iteration (both branches of the if/elif)
RemovedAfter(list, at, scan) ==
    IF IsPartialMatch(scan) THEN Append(list, at)
    ELSE IF ~scan.found THEN Append(list, at)
    ELSE list

----------------------------------------------------------------------------
(* compare_content_units: the metrics                                      *)

RECURSIVE TotalSimilarity(_, _)
TotalSimilarity(pairs, k) ==
    IF k > Len(pairs) THEN Frac(0, 1)
    ELSE FracAdd(pairs[k].similarity, TotalSimilarity(pairs, k + 1))

\* avg_similarity, already times 100
AvgContentSimilarity(pairs) ==
    IF pairs = <<>> THEN Frac(0, 1)
    ELSE LET total == TotalSimilarity(pairs, 1)
         IN Frac(total.n * 100, total.d * Len(pairs))

\* DocumentSimilarity without the subtraction of the common elements
DocumentSimilarityOverSum(total_old_content, total_new_content, matched_content) ==
    IF total_old_content > 0 /\ total_new_content > 0
    THEN Frac(matched_content * 100, total_old_content + total_new_content)
    ELSE Frac(0, 1)

\* doc_similarity
DocumentSimilarity(total_old_content, total_new_content, matched_content) ==
    IF total_old_content > 0 /\ total_new_content > 0
    THEN LET total_elements == total_old_content + total_new_content - matched_content
         IN IF total_elements > 0
            THEN Frac(matched_content * 100, total_elements)
            ELSE Frac(0, 1)
    ELSE Frac(0, 1)

\* retention_rate
RetentionRate(total_old_content, removed_count) ==
    IF total_old_content > 0
    THEN Frac((total_old_content - removed_count) * 100, total_old_content)
    ELSE Frac(0, 1)

\* " ".join([unit[0] for unit in units])
JoinedText(units) == Join([k \in DOMAIN units |-> units[k].text], <<" ">>)

\* text_similarity: no guard in the code, ratio() itself answers 1.0 for two
\* empty strings
TextSimilarity(old, new) == FracTimes(Ratio(JoinedText(old), JoinedText(new)), 100)

\* SimilarityScores whose retention_rate counts every paired old unit as kept,
\* the partial pairs included
SimilarityScoresRetentionByPairs(old, new, pairs, removed_list) ==
    [avg_content_similarity |-> AvgContentSimilarity(pairs),
     document_similarity |-> DocumentSimilarity(Len(old), Len(new), Len(pairs)),
     retention_rate |-> RetentionRate(Len(old), Len(old) - Len(pairs)),
     text_similarity |-> TextSimilarity(old, new),
     matched_content_pairs |-> pairs]

\* the similarity_scores dict
SimilarityScores(old, new, pairs, removed_list) ==
    [avg_content_similarity |-> AvgContentSimilarity(pairs),
     document_similarity |-> DocumentSimilarity(Len(old), Len(new), Len(pairs)),
     retention_rate |-> RetentionRate(Len(old), Len(removed_list)),
     text_similarity |-> TextSimilarity(old, new),
     matched_content_pairs |-> pairs]

\* the tuple compare_content_units returns, by value
ReturnValue(old, new, removed_list, added_list, scores) ==
    [removed |-> [k \in DOMAIN removed_list |-> old[removed_list[k]]],
     added |-> [k \in DOMAIN added_list |-> new[added_list[k]]],
     similarity_scores |->
        [scores EXCEPT !.matched_content_pairs =
            [k \in DOMAIN scores.matched_content_pairs |->
                <<old[scores.matched_content_pairs[k].old],
                  new[scores.matched_content_pairs[k].new],
                  scores.matched_content_pairs[k].similarity>>]]]

----------------------------------------------------------------------------
(* find_text_on_page and highlight_text_on_page                            *)
(*                                                                         *)
(* A page is the sequence of the text lines it shows; page.search_for(q)   *)
(* answers one rectangle per line that holds q, in page order, and a       *)
(* rectangle is written as the number of its line.                         *)

\* the elements of a set of integers, ascending
RECURSIVE Ascending(_)
Ascending(S) ==
    IF S = {} THEN <<>>
    ELSE LET m == Least(S) IN <<m>> \o Ascending(S \ {m})

\* needle in hay, as a run of consecutive characters
Contains(hay, needle) ==
    \E at \in 0..(Len(hay) - Len(needle)) : Slice(hay, at, at + Len(needle)) = needle

\* page.search_for(query)
search_for(page, query) == Ascending({k \in DOMAIN page : Contains(page[k], query)})

\* str.split(sep) from offset `from` on: the leftmost occurrences of sep, not
\* overlapping
RECURSIVE SplitOnFrom(_, _, _)
SplitOnFrom(text, sep, from) ==
    LET hits == {at \in from..(Len(text) - Len(sep)) :
                    Slice(text, at, at + Len(sep)) = sep}
    IN IF hits = {} THEN <<Slice(text, from, Len(text))>>
       ELSE <<Slice(text, from, Least(hits))>>
            \o SplitOnFrom(text, sep, Least(hits) + Len(sep))

\* text.split('\n\n') and text.split('\n')
SplitOn(text, sep) == SplitOnFrom(text, sep, 0)

\* the characters of the lookbehind (?<=[.!?])
SentenceEnd == {".", "!", "?"}

\* re.split(r'(?<=[.!?])\s+', text) from offset `from` on: a separator is a
\* whole run of whitespace that directly follows one of . ! ?
RECURSIVE SplitSentencesFrom(_, _)
SplitSentencesFrom(text, from) ==
    LET starts == {q \in (from + 1)..Len(text) :
                      /\ q >= 2
                      /\ IsSpace(text[q])
                      /\ text[q - 1] \in SentenceEnd}
    IN IF starts = {} THEN <<Slice(text, from, Len(text))>>
       ELSE LET q == Least(starts)
                last == Least({r \in q..Len(text) :
                                  r = Len(text) \/ ~IsSpace(text[r + 1])})
            IN <<Slice(text, from, q - 1)>> \o SplitSentencesFrom(text, last)

SplitSentences(text) == SplitSentencesFrom(text, 0)

\* sentence.split(): the maximal runs of characters that are not whitespace
Words(sentence) ==
    LET starts == Ascending({q \in 1..Len(sentence) :
                                /\ ~IsSpace(sentence[q])
                                /\ (q = 1 \/ IsSpace(sentence[q - 1]))})
        EndOf(q) == Least({r \in q..Len(sentence) :
                              r = Len(sentence) \/ IsSpace(sentence[r + 1])})
    IN [k \in DOMAIN starts |-> SubSeq(sentence, starts[k], EndOf(starts[k]))]

\* the literal 20 of `len(sentence) > 20`
FuzzySentenceFloor == 20

\* Chunks without the condition `if i + chunk_size <= len(words)`: the last
\* window may hold fewer words
ChunksWithTail(words, chunk_size) ==
    LET offsets == Ascending({o \in 0..(Len(words) - 1) : o % chunk_size = 0})
    IN [k \in DOMAIN offsets |->
           Join(Slice(words, offsets[k],
                      IF offsets[k] + chunk_size <= Len(words)
                      THEN offsets[k] + chunk_size ELSE Len(words)), <<" ">>)]

\* [' '.join(words[i:i + chunk_size]) for i in range(0, len(words), chunk_size)
\*  if i + chunk_size <= len(words)], for chunk_size >= 1
Chunks(words, chunk_size) ==
    LET offsets == Ascending({o \in 0..(Len(words) - 1) :
                                 o % chunk_size = 0 /\ o + chunk_size <= Len(words)})
    IN [k \in DOMAIN offsets |->
           Join(Slice(words, offsets[k], offsets[k] + chunk_size), <<" ">>)]

\* one more search: the query is logged with its tier and its rectangles are
\* appended (instances.extend)
Searched(found, page, tier, query) ==
    [queries |-> Append(found.queries, [tier |-> tier, query |-> query]),
     instances |-> found.instances \o search_for(page, query)]

\* for sentence in sentences (lines 704-709), from sentence k on
RECURSIVE SearchSentences(_, _, _, _, _)
SearchSentences(found, page, sentences, k, config) ==
    IF k > Len(sentences) THEN found
    ELSE LET sentence == Strip(sentences[k])
         IN SearchSentences(
                IF Len(sentence) > config.min_meaningful_text_length
                THEN Searched(found, page, "sentence", sentence)
                ELSE found,
                page, sentences, k + 1, config)

\* SearchParagraphs that stops at the first paragraph found on the page
RECURSIVE SearchParagraphsFirstHit(_, _, _, _, _)
SearchParagraphsFirstHit(found, page, paragraphs, k, config) ==
    IF k > Len(paragraphs) THEN found
    ELSE LET paragraph == Strip(paragraphs[k])
         IN IF paragraph = <<>>
            THEN SearchParagraphsFirstHit(found, page, paragraphs, k + 1, config)
            ELSE IF search_for(page, paragraph) # <<>>
            THEN Searched(found, page, "paragraph", paragraph)
            ELSE SearchParagraphsFirstHit(
                     SearchSentences(Searched(found, page, "paragraph", paragraph),
                                     page, SplitSentences(paragraph), 1, config),
                     page, paragraphs, k + 1, config)

\* for paragraph in paragraphs (lines 691-709), from paragraph k on
RECURSIVE SearchParagraphs(_, _, _, _, _)
SearchParagraphs(found, page, paragraphs, k, config) ==
    IF k > Len(paragraphs) THEN found
    ELSE LET paragraph == Strip(paragraphs[k])
         IN IF paragraph = <<>>
            THEN SearchParagraphs(found, page, paragraphs, k + 1, config)
            ELSE IF search_for(page, paragraph) # <<>>
            THEN SearchParagraphs(Searched(found, page, "paragraph", paragraph),
                                  page, paragraphs, k + 1, config)
            ELSE SearchParagraphs(
                     SearchSentences(Searched(found, page, "paragraph", paragraph),
                                     page, SplitSentences(paragraph), 1, config),
                     page, paragraphs, k + 1, config)

\* for chunk in chunks (lines 724-727), from chunk k on
RECURSIVE SearchChunks(_, _, _, _, _)
SearchChunks(found, page, chunks, k, config) ==
    IF k > Len(chunks) THEN found
    ELSE SearchChunks(
             IF Len(chunks[k]) > config.min_meaningful_text_length
             THEN Searched(found, page, "chunk", chunks[k])
             ELSE found,
             page, chunks, k + 1, config)

\* the fuzzy tier (lines 713-727), from sentence k on
RECURSIVE SearchFuzzy(_, _, _, _, _)
SearchFuzzy(found, page, sentences, k, config) ==
    IF k > Len(sentences) THEN found
    ELSE LET sentence == Strip(sentences[k])
         IN SearchFuzzy(
                IF Len(sentence) > FuzzySentenceFloor
                THEN SearchChunks(found, page,
                                  Chunks(Words(sentence), config.fuzzy_chunk_size),
                                  1, config)
                ELSE found,
                page, sentences, k + 1, config)

\* SearchLines without the return inside the loop: every searched line is
\* queried, and the first rectangle of each line that has one is annotated
RECURSIVE SearchLinesNoReturn(_, _, _, _, _)
SearchLinesNoReturn(found, page, lines, k, config) ==
    IF k > Len(lines) THEN found
    ELSE LET line == Strip(lines[k])
         IN IF Len(line) > config.min_meaningful_text_length
            THEN LET line_instances == search_for(page, line)
                     logged == Append(found.queries, [tier |-> "line", query |-> line])
                 IN SearchLinesNoReturn(
                        IF line_instances # <<>>
                        THEN [queries |-> logged,
                              annotated |-> Append(found.annotated, line_instances[1]),
                              result |-> TRUE]
                        ELSE [found EXCEPT !.queries = logged],
                        page, lines, k + 1, config)
            ELSE SearchLinesNoReturn(found, page, lines, k + 1, config)

\* SearchLines with the return after the loop over the rectangles: every
\* rectangle of the first line found is annotated
RECURSIVE SearchLinesAllRects(_, _, _, _, _)
SearchLinesAllRects(found, page, lines, k, config) ==
    IF k > Len(lines) THEN [found EXCEPT !.result = FALSE]
    ELSE LET line == Strip(lines[k])
         IN IF Len(line) > config.min_meaningful_text_length
            THEN LET line_instances == search_for(page, line)
                     logged == Append(found.queries, [tier |-> "line", query |-> line])
                 IN IF line_instances # <<>>
                    THEN [queries |-> logged,
                          annotated |-> found.annotated \o line_instances,
                          result |-> TRUE]
                    ELSE SearchLinesAllRects([found EXCEPT !.queries = logged],
                                             page, lines, k + 1, config)
            ELSE SearchLinesAllRects(found, page, lines, k + 1, config)

\* the line loop of highlight_text_on_page (lines 741-756), from line k on:
\* the first rectangle of the first searched line that has one is annotated
\* and True is returned at once
RECURSIVE SearchLines(_, _, _, _, _)
SearchLines(found, page, lines, k, config) ==
    IF k > Len(lines) THEN [found EXCEPT !.result = FALSE]
    ELSE LET line == Strip(lines[k])
         IN IF Len(line) > config.min_meaningful_text_length
            THEN LET line_instances == search_for(page, line)
                     logged == Append(found.queries, [tier |-> "line", query |-> line])
                 IN IF line_instances # <<>>
                    THEN [queries |-> logged,
                          annotated |-> Append(found.annotated, line_instances[1]),
                          result |-> TRUE]
                    ELSE SearchLines([found EXCEPT !.queries = logged],
                                     page, lines, k + 1, config)
            ELSE SearchLines(found, page, lines, k + 1, config)

----------------------------------------------------------------------------
(* Inputs of the model                                                     *)

\* characters drawn for preprocess_text: upper and lower case, whitespace,
\* minor punctuation, and keys of the replacement table
NormAlphabet == {"A", "a", " ", "\n", ",", "'", "\"", "U+FB01", "U+2026", "U+200B"}

\* longer arguments: the 7-character key of the table, inside a word
NormExtra ==
    { <<"a", ":", " ", "\"", "'", "\"", ",", " ", "A">>,
      <<"\"", ":", " ", "\"", "'", "\"", ",", " ", " ">> }

TextA == <<"a", "a", "a", "a">>
TextB == <<"a", "a", "a", "b">>
TextC == <<"a", "a", "b">>

\* processed texts of the units handed to compare_content_units directly:
\* Ratio(TextA, TextB) = 3/4, Ratio(TextB, TextC) = 6/7, Ratio(TextA, TextC) = 4/7
Texts == {TextA, TextB, TextC}

DirectUnits == {[text |-> t, page |-> 0, original |-> t] : t \in Texts}

\* processed texts around the literal 0.7: Ratio(FloorA, FloorB) = 14/20,
\* Ratio(FloorA, FloorC) = 18/20, Ratio(FloorB, FloorC) = 16/20
FloorA == <<"a", "a", "a", "a", "a", "a", "a", "b", "b", "b">>
FloorB == <<"a", "a", "a", "a", "a", "a", "a", "c", "c", "c">>
FloorC == <<"a", "a", "a", "a", "a", "a", "a", "b", "b", "c">>

FloorUnits == {[text |-> t, page |-> 0, original |-> t] : t \in {FloorA, FloorB, FloorC}}

FloorUnitLists == UNION {[1..n -> FloorUnits] : n \in 0..MaxUnits}

UnitLists == UNION {[1..n -> DirectUnits] : n \in 0..MaxUnits}

\* page texts: two paragraphs, the first with an upper-case letter; two
\* paragraphs parted by a separator that holds a blank, the second one short
\* and starting with punctuation
PageB == <<"A", "a", "a", "b", "\n", "\n", "a", "a", "b">>
PageC == <<"a", "a", "a", "b", "\n", " ", "\n", "\n", ",", "b">>

PagePool == {PageB, PageC}

Documents == UNION {[1..n -> PagePool] : n \in 0..MaxPages}

\* exact_match_threshold: the value of the code, 0.92, and a lower one that
\* strings this short can reach without being equal
Thresholds == {Percent(92), Percent(80)}

\* min_meaningful_text_length, scaled to the strings of the model: 3 is the
\* length of TextC, 1 that of the short paragraph of PageC
MinLengths == {1, 3}

\* fuzzy_chunk_size as __init__ sets it
FuzzyChunkSize == 5

Config(threshold, min_length, enhanced) ==
    [exact_match_threshold |-> threshold,
     min_meaningful_text_length |-> min_length,
     fuzzy_chunk_size |-> FuzzyChunkSize,
     enable_enhanced_preprocessing |-> enhanced]

alpha == <<"a", "l", "p", "h", "a">>
beta == <<"b", "e", "t", "a">>
gamma == <<"g", "a", "m", "m", "a">>
delta == <<"d", "e", "l", "t", "a">>
epsilon == <<"e", "p", "s", "i", "l", "o", "n">>
zeta == <<"z", "e", "t", "a">>
eta == <<"e", "t", "a">>
theta == <<"t", "h", "e", "t", "a">>

Sentence(words) == Join(words, <<" ">>)

\* an 8-word sentence, 45 characters
SentenceD == Sentence(<<alpha, beta, gamma, delta, epsilon, zeta, eta, theta>>)

\* its first window of five words
WindowD == Sentence(<<alpha, beta, gamma, delta, epsilon>>)

\* three lines of 16, 18 and 20 characters
LineOne == Sentence(<<alpha, beta, gamma>>)
LineTwo == Sentence(<<delta, epsilon, zeta>>)
LineThree == Sentence(<<eta, theta, alpha, beta>>)

\* the three lines as one paragraph, with blanks around it
TextLines ==
    <<" ">> \o LineOne \o <<"\n">> \o LineTwo \o <<" ", "\n">> \o LineThree \o <<"\n">>

\* two paragraphs, the first of two sentences
TextParagraphs ==
    LineOne \o <<".", " ", " ">> \o LineTwo \o <<"!", "\n", "\n">> \o LineThree

\* nine characters: shorter than min_meaningful_text_length
TextShort == Sentence(<<eta, theta>>)

\* two paragraphs, the second of three sentences: the middle one short, the
\* last one without its own punctuation
TextSentences ==
    LineThree \o <<"\n", "\n">> \o LineOne \o <<".", " ">> \o TextShort
    \o <<"!", " ">> \o LineTwo

TextBlank == <<" ", "\n">>

\* the texts handed to highlight_text_on_page
LocateTexts ==
    {SentenceD, TextLines, TextParagraphs, TextSentences, TextShort, TextBlank}

\* the lines a page may show
PageLinePool == {SentenceD, WindowD, LineTwo, LineThree}

Pages == UNION {[1..n -> PageLinePool] : n \in 0..MaxPageLines}

\* fuzzy_chunk_size: the value of the code and a smaller one, with which the
\* sentences of the model give more than one window
ChunkSizes == {FuzzyChunkSize, 3}

\* the configuration of the code, but for fuzzy_chunk_size
LocateConfigs ==
    {[Config(Percent(92), 13, TRUE) EXCEPT !.fuzzy_chunk_size = c] : c \in ChunkSizes}

NoScores ==
    [avg_content_similarity |-> Frac(0, 1), document_similarity |-> Frac(0, 1),
     retention_rate |-> Frac(0, 1), text_similarity |-> Frac(0, 1),
     matched_content_pairs |-> <<>>]

----------------------------------------------------------------------------
(* Initial states                                                          *)

InitLocals ==
    /\ i = 0
    /\ examined = 0
    /\ found_match = FALSE
    /\ best_match_idx = -1
    /\ best_similarity = Frac(0, 1)
    /\ unmatched_new = <<>>
    /\ old_matched = <<>>
    /\ matched_pairs = <<>>
    /\ removed = <<>>
    /\ added = <<>>
    /\ similarity_scores = NoScores
    /\ returned = <<>>

InitNoNormalize == nz_text = <<>> /\ nz_once = <<>> /\ nz_twice = <<>>

InitNoLocate ==
    /\ hl_page = <<>> /\ hl_text = <<>> /\ hl_fuzzy = FALSE /\ hl_color = "red"
    /\ queries = <<>> /\ instances = <<>> /\ annotations = <<>>
    /\ hl_result = "none"

\* an attribute that is None, and one that holds a value
None == <<>>
Some(value) == <<value>>

\* the attributes compare_pdfs stores, as __init__ leaves them
NothingStored ==
    [old_doc |-> None, new_doc |-> None, removed |-> None, added |-> None,
     similarity_scores |-> None]

InitNoRun ==
    /\ pdf1_doc = <<>> /\ pdf2_doc = <<>>
    /\ run = 0
    /\ comparison_complete = FALSE
    /\ stored = NothingStored
    /\ stored_before = NothingStored
    /\ hl_idx = 0
    /\ hl_outcomes = <<>>
    /\ saved = {}
    /\ notifications = <<>>
    /\ error_text = ""
    /\ progress = <<>>

ThreadIds == 1..MaxThreads

NoThread == [kind |-> "none", pc |-> "none"]

\* the widgets and flags as __init__ and _setup_ui leave them
InitWidgets ==
    /\ btn_compare = "disabled"
    /\ btn_extract_tables = "disabled"
    /\ btn_report = "disabled"
    /\ table_extraction_complete = FALSE
    /\ threads = [t \in ThreadIds |-> NoThread]
    /\ after_queue = <<>>

InitNoUI == pdf1_path = "" /\ pdf2_path = "" /\ InitWidgets

InitOther == InitNoLocate /\ InitNoRun /\ InitNoUI

\* compare_content_units called on unit lists of the caller's choice
InitMatch ==
    /\ comparison_config \in {Config(t, 1, TRUE) : t \in Thresholds}
    /\ old_units \in UnitLists
    /\ new_units \in UnitLists
    /\ old_text = <<>> /\ new_text = <<>>
    /\ pc = "idle"
    /\ runs_left = MaxRuns
    /\ InitLocals
    /\ InitNoNormalize
    /\ InitOther

\* compare_content_units, configured as __init__ does, on units whose
\* similarities lie at and above 0.7
InitFloor ==
    /\ comparison_config = Config(Percent(92), 13, TRUE)
    /\ old_units \in FloorUnitLists
    /\ new_units \in FloorUnitLists
    /\ old_text = <<>> /\ new_text = <<>>
    /\ pc = "idle"
    /\ runs_left = 1
    /\ InitLocals
    /\ InitNoNormalize
    /\ InitOther

\* compare_pdfs after both documents were read: extraction, then one comparison
InitPipeline ==
    /\ comparison_config \in
          {Config(t, m, e) : t \in Thresholds, m \in MinLengths, e \in BOOLEAN}
    /\ old_text \in Documents
    /\ new_text \in Documents
    /\ old_units = <<>> /\ new_units = <<>>
    /\ pc = "extract_old"
    /\ runs_left = 1
    /\ InitLocals
    /\ InitNoNormalize
    /\ InitOther

\* preprocess_text called on a string of the caller's choice
InitNormalize ==
    /\ comparison_config \in {Config(Percent(92), 1, e) : e \in BOOLEAN}
    /\ nz_text \in StringsUpTo(NormAlphabet, MaxLen) \cup NormExtra
    /\ nz_once = <<>> /\ nz_twice = <<>>
    /\ old_text = <<>> /\ new_text = <<>>
    /\ old_units = <<>> /\ new_units = <<>>
    /\ pc = "normalize"
    /\ runs_left = 0
    /\ InitLocals
    /\ InitOther

\* highlight_text_on_page called on a page, a text, fuzzy and a colour of the
\* caller's choice
InitLocate ==
    /\ comparison_config \in LocateConfigs
    /\ hl_page \in Pages
    /\ hl_text \in LocateTexts
    /\ hl_fuzzy \in BOOLEAN
    /\ hl_color \in {"red", "green"}
    /\ queries = <<>> /\ instances = <<>> /\ annotations = <<>>
    /\ hl_result = "none"
    /\ old_text = <<>> /\ new_text = <<>>
    /\ old_units = <<>> /\ new_units = <<>>
    /\ pc = "highlight"
    /\ runs_left = 0
    /\ InitLocals
    /\ InitNoNormalize
    /\ InitNoRun
    /\ InitNoUI

\* the application after __init__, no file chosen yet
InitUI ==
    /\ comparison_config = Config(Percent(92), 13, TRUE)
    /\ InitNoUI
    /\ InitNoRun
    /\ InitNoLocate
    /\ InitNoNormalize
    /\ InitLocals
    /\ old_text = <<>> /\ new_text = <<>>
    /\ old_units = <<>> /\ new_units = <<>>
    /\ pc = "mainloop"
    /\ runs_left = 0

\* the files a run opens
RunDocuments == UNION {[1..n -> PagePool] : n \in 0..MaxRunPages}

\* the application after __init__, both files chosen, with comparison_config
\* as one of `configs`
InitRunWith(configs) ==
    /\ comparison_config \in configs
    /\ pdf1_doc \in RunDocuments
    /\ pdf2_doc \in RunDocuments
    /\ run = 0
    /\ comparison_complete = FALSE
    /\ stored = NothingStored
    /\ stored_before = NothingStored
    /\ hl_idx = 0
    /\ hl_outcomes = <<>>
    /\ saved = {}
    /\ notifications = <<>>
    /\ error_text = ""
    /\ progress = <<>>
    /\ old_text = <<>> /\ new_text = <<>>
    /\ old_units = <<>> /\ new_units = <<>>
    /\ pdf1_path = "file" /\ pdf2_path = "file"
    /\ btn_compare = "normal"
    /\ btn_extract_tables = "normal"
    /\ btn_report = "disabled"
    /\ table_extraction_complete = FALSE
    /\ threads = [t \in ThreadIds |-> NoThread]
    /\ after_queue = <<>>
    /\ pc = "ready"
    /\ runs_left = 0
    /\ InitLocals
    /\ InitNoNormalize
    /\ InitNoLocate

InitRun == InitRunWith({Config(Percent(92), 1, TRUE)})

\* values that the dict literal of __init__ can be given: nothing in the code
\* checks them.  The first is in range; then a threshold above 1, a threshold
\* of 0, and a chunk size of 0.
ConfigSurface ==
    { Config(Percent(92), 1, TRUE),
      Config(Frac(3, 2), 1, TRUE),
      Config(Frac(0, 1), 1, TRUE),
      [Config(Percent(92), 1, TRUE) EXCEPT !.fuzzy_chunk_size = 0] }

InitConfigured == InitRunWith(ConfigSurface)

----------------------------------------------------------------------------
(* Actions                                                                 *)

\* processed = self.preprocess_text(x)
PreprocessOnce ==
    /\ pc = "normalize"
    /\ nz_once' = preprocess_text(nz_text, comparison_config.enable_enhanced_preprocessing)
    /\ pc' = "normalize_again"
    /\ UNCHANGED <<comparison_config, otherVars, nz_text, nz_twice, docVars, unitVars,
                   loopVars, resultVars, runs_left, returned>>

\* self.preprocess_text(processed)
PreprocessTwice ==
    /\ pc = "normalize_again"
    /\ nz_twice' = preprocess_text(nz_once, comparison_config.enable_enhanced_preprocessing)
    /\ pc' = "normalized"
    /\ UNCHANGED <<comparison_config, otherVars, nz_text, nz_once, docVars, unitVars,
                   loopVars, resultVars, runs_left, returned>>

\* old_units = self.extract_content_units(old_text)
ExtractOld ==
    /\ pc = "extract_old"
    /\ old_units' = extract_content_units(old_text, comparison_config)
    /\ pc' = "extract_new"
    /\ UNCHANGED <<comparison_config, otherVars, normVars, docVars, new_units, loopVars,
                   resultVars, runs_left, returned>>

\* new_units = self.extract_content_units(new_text)
ExtractNew ==
    /\ pc = "extract_new"
    /\ new_units' = extract_content_units(new_text, comparison_config)
    /\ pc' = "idle"
    /\ UNCHANGED <<comparison_config, otherVars, normVars, docVars, old_units, loopVars,
                   resultVars, runs_left, returned>>

\* CallCompare with removed and matched_pairs kept from the call before (as
\* if they were attributes of the long-lived object)
CallCompareKeepContainers ==
    /\ pc \in {"idle", "returned"}
    /\ runs_left > 0
    /\ runs_left' = runs_left - 1
    /\ added' = <<>>
    /\ unmatched_new' = [k \in 1..Len(new_units) |-> k]
    /\ old_matched' = [k \in 1..Len(old_units) |-> FALSE]
    /\ i' = 0
    /\ pc' = "loop"
    /\ UNCHANGED <<comparison_config, otherVars, normVars, docVars, unitVars, examined,
                   found_match, best_match_idx, best_similarity, removed,
                   matched_pairs, similarity_scores, returned>>

\* entry of compare_content_units: the containers are created afresh
CallCompare ==
    /\ pc \in {"idle", "returned"}
    /\ runs_left > 0
    /\ runs_left' = runs_left - 1
    /\ removed' = <<>>
    /\ added' = <<>>
    /\ matched_pairs' = <<>>
    /\ unmatched_new' = [k \in 1..Len(new_units) |-> k]
    /\ old_matched' = [k \in 1..Len(old_units) |-> FALSE]
    /\ i' = 0
    /\ pc' = "loop"
    /\ UNCHANGED <<comparison_config, otherVars, normVars, docVars, unitVars, examined,
                   found_match, best_match_idx, best_similarity,
                   similarity_scores, returned>>

\* one iteration of `for i, (old_text, old_page, old_original) in enumerate(old_units)`
CompareIteration ==
    /\ pc = "loop"
    /\ i < Len(old_units)
    /\ LET cands == [k \in 1..Len(unmatched_new) |-> new_units[unmatched_new[k]].text]
           scan == ScanCandidates(old_units[i + 1].text, cands, comparison_config)
       IN /\ found_match' = scan.found
          /\ best_match_idx' = scan.best_match_idx
          /\ best_similarity' = scan.best_similarity
          /\ examined' = scan.examined
          /\ old_matched' = IF scan.found THEN [old_matched EXCEPT ![i + 1] = TRUE]
                            ELSE old_matched
          /\ matched_pairs' = PairsAfter(matched_pairs, i + 1, unmatched_new, scan)
          /\ unmatched_new' = IF scan.found THEN PopAt(unmatched_new, scan.j)
                              ELSE unmatched_new
          /\ removed' = RemovedAfter(removed, i + 1, scan)
    /\ i' = i + 1
    /\ UNCHANGED <<comparison_config, otherVars, pc, normVars, docVars, unitVars, resultVars,
                   runs_left, returned>>

\* after the loop: added = unmatched_new, the metrics, and the return
FinishCompare ==
    /\ pc = "loop"
    /\ i = Len(old_units)
    /\ added' = unmatched_new
    /\ similarity_scores' = SimilarityScores(old_units, new_units, matched_pairs, removed)
    /\ returned' = Append(returned,
                          ReturnValue(old_units, new_units, removed, added',
                                      similarity_scores'))
    /\ pc' = "returned"
    /\ UNCHANGED <<comparison_config, otherVars, normVars, docVars, unitVars, loopVars, runs_left>>

\* what no step of highlight_text_on_page changes
locateFrame == <<comparison_config, normVars, docVars, unitVars, loopVars,
                 resultVars, runs_left, returned, hl_page, hl_text, hl_fuzzy,
                 hl_color, runVars, uiVars>>

\* HighlightEntry without `return whole_text_instances`: the paragraphs are
\* tried after a hit of the whole text too
HighlightEntryNoReturn ==
    /\ pc = "highlight"
    /\ IF Strip(hl_text) = <<>>
       THEN /\ hl_result' = "False"
            /\ pc' = "highlighted"
            /\ UNCHANGED <<queries, instances>>
       ELSE LET whole == Searched([queries |-> queries, instances |-> <<>>],
                                  hl_page, "whole", Strip(hl_text))
            IN /\ queries' = whole.queries
               /\ instances' = whole.instances
               /\ pc' = "paragraphs"
               /\ UNCHANGED hl_result
    /\ UNCHANGED <<annotations, locateFrame>>

\* highlight_text_on_page up to the whole-text search of find_text_on_page
\* (lines 733-736, 678-685)
HighlightEntry ==
    /\ pc = "highlight"
    /\ IF Strip(hl_text) = <<>>
       THEN /\ hl_result' = "False"
            /\ pc' = "highlighted"
            /\ UNCHANGED <<queries, instances>>
       ELSE LET whole == Searched([queries |-> queries, instances |-> <<>>],
                                  hl_page, "whole", Strip(hl_text))
            IN /\ queries' = whole.queries
               /\ instances' = whole.instances
               /\ pc' = IF whole.instances # <<>> THEN "found" ELSE "paragraphs"
               /\ UNCHANGED hl_result
    /\ UNCHANGED <<annotations, locateFrame>>

\* ParagraphTier with `if fuzzy:` in place of `if fuzzy and not instances:`
ParagraphTierAlwaysFuzzy ==
    /\ pc = "paragraphs"
    /\ LET found == SearchParagraphs([queries |-> queries, instances |-> <<>>],
                                     hl_page, SplitOn(Strip(hl_text), <<"\n", "\n">>),
                                     1, comparison_config)
       IN /\ queries' = found.queries
          /\ instances' = found.instances
          /\ pc' = IF hl_fuzzy THEN "chunks" ELSE "found"
    /\ UNCHANGED <<annotations, hl_result, locateFrame>>

\* find_text_on_page: the paragraphs and their sentences (lines 688-709)
ParagraphTier ==
    /\ pc = "paragraphs"
    /\ LET found == SearchParagraphs([queries |-> queries, instances |-> <<>>],
                                     hl_page, SplitOn(Strip(hl_text), <<"\n", "\n">>),
                                     1, comparison_config)
       IN /\ queries' = found.queries
          /\ instances' = found.instances
          /\ pc' = IF hl_fuzzy /\ found.instances = <<>> THEN "chunks" ELSE "found"
    /\ UNCHANGED <<annotations, hl_result, locateFrame>>

\* find_text_on_page: the fuzzy tier (lines 712-729)
ChunkTier ==
    /\ pc = "chunks"
    /\ comparison_config.fuzzy_chunk_size >= 1
    /\ LET found == SearchFuzzy([queries |-> queries, instances |-> instances],
                                hl_page, SplitSentences(Strip(hl_text)),
                                1, comparison_config)
       IN /\ queries' = found.queries
          /\ instances' = found.instances
          /\ pc' = "found"
    /\ UNCHANGED <<annotations, hl_result, locateFrame>>

\* highlight_text_on_page: instances is empty, the lines are tried (lines 738-756, 770)
LineTier ==
    /\ pc = "found"
    /\ instances = <<>>
    /\ LET found == SearchLines([queries |-> queries, annotated |-> <<>>, result |-> FALSE],
                                hl_page, SplitOn(hl_text, <<"\n">>), 1,
                                comparison_config)
       IN /\ queries' = found.queries
          /\ annotations' = annotations \o
                [k \in DOMAIN found.annotated |->
                    [rect |-> found.annotated[k], color |-> hl_color]]
          /\ hl_result' = IF found.result THEN "True" ELSE "False"
    /\ pc' = "highlighted"
    /\ UNCHANGED <<instances, locateFrame>>

\* highlight_text_on_page: every rectangle of instances is annotated (lines 757-768)
AnnotateInstances ==
    /\ pc = "found"
    /\ instances # <<>>
    /\ annotations' = annotations \o
          [k \in DOMAIN instances |-> [rect |-> instances[k], color |-> hl_color]]
    /\ hl_result' = "True"
    /\ pc' = "highlighted"
    /\ UNCHANGED <<queries, instances, locateFrame>>

\* what no step of compare_pdfs outside compare_content_units changes
runFrame == <<comparison_config, normVars, unitVars, loopVars, resultVars,
              returned, locateVars, pdf1_doc, pdf2_doc, run, stored_before,
              uiVars>>

\* start_comparison (lines 523-542): the flag is reset and the worker started
StartComparison ==
    /\ pc = "ready"
    /\ btn_compare = "normal"
    /\ run < MaxComparisons
    /\ btn_compare' = "disabled"
    /\ btn_extract_tables' = "disabled"
    /\ btn_report' = "disabled"
    /\ run' = run + 1
    /\ comparison_complete' = FALSE
    /\ stored_before' = stored
    /\ hl_idx' = 0
    /\ hl_outcomes' = <<>>
    /\ saved' = {}
    /\ error_text' = ""
    /\ progress' = <<>>
    /\ runs_left' = 0
    /\ pc' = "open_old"
    /\ UNCHANGED <<comparison_config, normVars, docVars, unitVars, loopVars,
                   resultVars, returned, locateVars, pdf1_doc, pdf2_doc, stored,
                   notifications, pathVars, table_extraction_complete, threads,
                   after_queue>>

\* AbortRun with the completion flag set on the way out (as if line 955 stood
\* in a finally clause)
AbortRunMarksComplete(cause) ==
    /\ error_text' = cause
    /\ notifications' = Append(notifications, [run |-> run, callback |-> "show_error"])
    /\ pc' = "failed"
    /\ comparison_complete' = TRUE
    /\ UNCHANGED stored

\* the except block of compare_pdfs (lines 982-995), entered from the call
\* that raised
AbortRun(cause) ==
    /\ error_text' = cause
    /\ notifications' = Append(notifications, [run |-> run, callback |-> "show_error"])
    /\ pc' = "failed"
    /\ UNCHANGED <<comparison_complete, stored>>

\* the call went through: nothing is stored or scheduled
NoAbort == UNCHANGED <<comparison_complete, stored, notifications, error_text>>

\* one call of update_progress: the value passed, and what the call found
\* saved and flagged
Reported(value) == [value |-> value, saved |-> saved, complete |-> comparison_complete]

\* the calls of update_progress in the page loop of extract_text_from_pdf
\* (lines 596-601) for the first `pages` pages of `total`:
\* base_progress + (page_num / total_pages) * 20
PageProgress(base, pages, total) ==
    [k \in 1..pages |-> Reported(Frac(base * total + (k - 1) * 20, total))]

\* self.update_progress(0, ...) and
\* old_text, old_blocks, old_doc = self.extract_text_from_pdf(self.pdf1_path, True);
\* fitz.open or get_text of any page may raise
OpenOld ==
    /\ pc = "open_old"
    /\ \/ /\ old_text' = pdf1_doc /\ pc' = "open_new" /\ NoAbort
          /\ progress' = progress \o <<Reported(Frac(0, 1))>>
                          \o PageProgress(0, Len(pdf1_doc), Len(pdf1_doc))
       \/ /\ AbortRun("extract") /\ UNCHANGED old_text
          /\ \E pages \in 0..Len(pdf1_doc) :
                progress' = progress \o <<Reported(Frac(0, 1))>>
                            \o PageProgress(0, pages, Len(pdf1_doc))
    /\ UNCHANGED <<new_text, runs_left, hl_idx, hl_outcomes, saved, runFrame>>

\* self.update_progress(20, ...),
\* new_text, new_blocks, new_doc = self.extract_text_from_pdf(self.pdf2_path, False)
\* and self.update_progress(40, ...) (lines 882-886)
OpenNew ==
    /\ pc = "open_new"
    /\ \/ /\ new_text' = pdf2_doc /\ pc' = "extract_old" /\ NoAbort
          /\ progress' = progress \o <<Reported(Frac(20, 1))>>
                          \o PageProgress(20, Len(pdf2_doc), Len(pdf2_doc))
                          \o <<Reported(Frac(40, 1))>>
       \/ /\ AbortRun("extract") /\ UNCHANGED new_text
          /\ \E pages \in 0..Len(pdf2_doc) :
                progress' = progress \o <<Reported(Frac(20, 1))>>
                            \o PageProgress(20, pages, Len(pdf2_doc))
    /\ UNCHANGED <<old_text, runs_left, hl_idx, hl_outcomes, saved, runFrame>>

\* self.update_progress(50, ...) (line 891), between the extraction of the
\* units and the call of compare_content_units
BeforeCompare ==
    /\ pc = "idle"
    /\ runs_left = 0
    /\ progress' = Append(progress, Reported(Frac(50, 1)))
    /\ runs_left' = 1
    /\ NoAbort
    /\ UNCHANGED <<docVars, hl_idx, hl_outcomes, saved, pc, runFrame>>

\* self.update_progress(60, ...) (line 895), made before the loop over
\* removed is entered; update_progress(75, ...) is made where that loop ends
LoopEntry(side, idx) ==
    IF side = "removed" /\ idx = 0 THEN <<Reported(Frac(60, 1))>> ELSE <<>>

\* current_progress = 60 + (idx / max(1, removed_count)) * 15 (line 901) and
\* 75 + (idx / max(1, added_count)) * 15 (line 913), for count >= 1
LoopProgress(side, idx, count) ==
    Frac((IF side = "removed" THEN 60 ELSE 75) * count + idx * 15, count)

\* what one call of highlight_text_on_page from compare_pdfs can do: annotate
\* and return True, find nothing and return False, or let an exception of
\* page.search_for or of the annotation through
HighlightOutcomes == {"True", "False", "search raised", "annotate raised"}

\* one iteration of a highlight loop of compare_pdfs over `units` (lines
\* 897-904 and 909-916); side is "removed" or "added"
HighlightUnit(side, units) ==
    /\ hl_idx < Len(units)
    /\ \E outcome \in HighlightOutcomes :
          /\ hl_outcomes' = Append(hl_outcomes,
                                   [side |-> side, unit |-> units[hl_idx + 1],
                                    outcome |-> outcome])
          /\ IF outcome \in {"True", "False"}
             THEN /\ hl_idx' = hl_idx + 1
                  /\ progress' = progress \o LoopEntry(side, hl_idx)
                                  \o <<Reported(LoopProgress(side, hl_idx, Len(units)))>>
                  /\ UNCHANGED pc
                  /\ NoAbort
             ELSE /\ AbortRun(outcome)
                  /\ progress' = progress \o LoopEntry(side, hl_idx)
                  /\ UNCHANGED hl_idx
    /\ UNCHANGED <<docVars, runs_left, saved, runFrame>>

\* for idx, (text, page_num, original) in enumerate(removed)
HighlightRemoved == pc = "returned" /\ HighlightUnit("removed", removed)

\* the loop over removed is over: self.update_progress(75, ...)
RemovedHighlighted ==
    /\ pc = "returned"
    /\ hl_idx = Len(removed)
    /\ hl_idx' = 0
    /\ progress' = progress \o LoopEntry("removed", hl_idx)
                    \o <<Reported(Frac(75, 1))>>
    /\ pc' = "highlight_added"
    /\ NoAbort
    /\ UNCHANGED <<docVars, runs_left, hl_outcomes, saved, runFrame>>

\* for idx, (text, page_num, original) in enumerate(added)
HighlightAdded == pc = "highlight_added" /\ HighlightUnit("added", added)

\* AddedHighlighted reporting 100 where the code reports 90: the run is
\* announced complete before the documents are saved
AddedHighlightedReportsDone ==
    /\ pc = "highlight_added"
    /\ hl_idx = Len(added)
    /\ progress' = Append(progress, Reported(Frac(100, 1)))
    /\ pc' = "save_old"
    /\ NoAbort
    /\ UNCHANGED <<docVars, runs_left, hl_idx, hl_outcomes, saved, runFrame>>

\* the loop over added is over: self.update_progress(90, ...)
AddedHighlighted ==
    /\ pc = "highlight_added"
    /\ hl_idx = Len(added)
    /\ progress' = Append(progress, Reported(Frac(90, 1)))
    /\ pc' = "save_old"
    /\ NoAbort
    /\ UNCHANGED <<docVars, runs_left, hl_idx, hl_outcomes, saved, runFrame>>

\* old_doc.save(old_pdf_path)
SaveOld ==
    /\ pc = "save_old"
    /\ \/ saved' = saved \cup {"old"} /\ pc' = "save_new" /\ NoAbort
       \/ AbortRun("save") /\ UNCHANGED saved
    /\ UNCHANGED <<docVars, runs_left, hl_idx, hl_outcomes, progress, runFrame>>

\* new_doc.save(new_pdf_path)
SaveNew ==
    /\ pc = "save_new"
    /\ \/ saved' = saved \cup {"new"} /\ pc' = "store" /\ NoAbort
       \/ AbortRun("save") /\ UNCHANGED saved
    /\ UNCHANGED <<docVars, runs_left, hl_idx, hl_outcomes, progress, runFrame>>

\* lines 928-980: the results are stored, the flag is set and show_completion
\* is scheduled.  A document is known by the run that opened it.
StoreResults ==
    /\ pc = "store"
    /\ stored' = [old_doc |-> Some(run), new_doc |-> Some(run),
                  removed |-> Some(returned[Len(returned)].removed),
                  added |-> Some(returned[Len(returned)].added),
                  similarity_scores |-> Some(returned[Len(returned)].similarity_scores)]
    /\ progress' = Append(progress, Reported(Frac(100, 1)))
    /\ comparison_complete' = TRUE
    /\ notifications' = Append(notifications,
                               [run |-> run, callback |-> "show_completion"])
    /\ pc' = "finished"
    /\ UNCHANGED <<docVars, runs_left, hl_idx, hl_outcomes, saved, error_text,
                   runFrame>>

\* enable_report_button (lines 501-508)
enable_report_button(complete, tables_complete) ==
    IF complete \/ tables_complete THEN "normal" ELSE "disabled"

\* what the callbacks of a run leave alone
callbackFrame == <<comparison_config, normVars, docVars, unitVars, loopVars,
                   resultVars, runs_left, returned, locateVars, runVars, pathVars,
                   table_extraction_complete, threads, after_queue>>

\* show_completion of compare_pdfs (lines 958-977), run by the main loop
ShowCompletion ==
    /\ pc = "finished"
    /\ btn_compare' = "normal"
    /\ btn_extract_tables' = "normal"
    /\ btn_report' = enable_report_button(comparison_complete, table_extraction_complete)
    /\ pc' = "ready"
    /\ UNCHANGED callbackFrame

\* show_error of compare_pdfs (lines 986-992), run by the main loop
ShowError ==
    /\ pc = "failed"
    /\ btn_compare' = "normal"
    /\ btn_extract_tables' = "normal"
    /\ pc' = "ready"
    /\ UNCHANGED <<btn_report, callbackFrame>>

----------------------------------------------------------------------------
(* The main loop and the worker threads                                    *)
(*                                                                         *)
(* A handler or a callback of the main loop is one step.  A worker thread  *)
(* is followed through its calls of update_progress, which it enters and   *)
(* leaves in separate steps, to its last statement; how many calls it      *)
(* makes depends on the documents and is left open.                        *)

\* what neither the main loop nor a worker changes here
uiFrame == <<comparison_config, pc, normVars, docVars, unitVars, loopVars,
             resultVars, runs_left, returned, locateVars, pdf1_doc, pdf2_doc,
             run, stored, stored_before, hl_idx, hl_outcomes, saved,
             notifications, error_text, progress>>

\* enable_compare_button and enable_extract_tables_button (lines 483-499)
enable_button(path1, path2) ==
    IF path1 # "" /\ path2 # "" THEN "normal" ELSE "disabled"

\* what filedialog.askopenfilename returns: "" when the dialog is cancelled
DialogAnswers == {"", "file"}

\* load_pdf1 (lines 459-469)
LoadPdf1 ==
    /\ \E answer \in DialogAnswers :
          /\ pdf1_path' = answer
          /\ IF answer # ""
             THEN /\ btn_compare' = enable_button(answer, pdf2_path)
                  /\ btn_extract_tables' = enable_button(answer, pdf2_path)
             ELSE UNCHANGED <<btn_compare, btn_extract_tables>>
    /\ UNCHANGED <<pdf2_path, btn_report, comparison_complete,
                   table_extraction_complete, threads, after_queue, uiFrame>>

\* load_pdf2 (lines 471-481)
LoadPdf2 ==
    /\ \E answer \in DialogAnswers :
          /\ pdf2_path' = answer
          /\ IF answer # ""
             THEN /\ btn_compare' = enable_button(pdf1_path, answer)
                  /\ btn_extract_tables' = enable_button(pdf1_path, answer)
             ELSE UNCHANGED <<btn_compare, btn_extract_tables>>
    /\ UNCHANGED <<pdf1_path, btn_report, comparison_complete,
                   table_extraction_complete, threads, after_queue, uiFrame>>

\* threads not started yet
FreeThreads == {t \in ThreadIds : threads[t].kind = "none"}

\* threading.Thread(target=...).start(): the next thread, at its first statement
Started(kind) ==
    [threads EXCEPT ![Least(FreeThreads)] = [kind |-> kind, pc |-> "started"]]

\* the Compare PDFs button is pressed: start_comparison (lines 523-542)
ClickCompare ==
    /\ btn_compare = "normal"
    /\ FreeThreads # {}
    /\ btn_compare' = "disabled"
    /\ btn_extract_tables' = "disabled"
    /\ btn_report' = "disabled"
    /\ comparison_complete' = FALSE
    /\ threads' = Started("compare")
    /\ UNCHANGED <<pathVars, table_extraction_complete, after_queue, uiFrame>>

\* the Extract Tables button is pressed: start_table_extraction (lines 544-563)
ClickExtractTables ==
    /\ btn_extract_tables = "normal"
    /\ FreeThreads # {}
    /\ btn_compare' = "disabled"
    /\ btn_extract_tables' = "disabled"
    /\ btn_report' = "disabled"
    /\ table_extraction_complete' = FALSE
    /\ threads' = Started("tables")
    /\ UNCHANGED <<pathVars, comparison_complete, after_queue, uiFrame>>

\* the Generate Report button is pressed: start_report_generation (lines
\* 565-580); without a completed run it shows a message and returns
ClickReport ==
    /\ btn_report = "normal"
    /\ FreeThreads # {}
    /\ IF ~comparison_complete /\ ~table_extraction_complete
       THEN UNCHANGED <<btn_report, threads>>
       ELSE /\ btn_report' = "disabled"
            /\ threads' = Started("report")
    /\ UNCHANGED <<pathVars, btn_compare, btn_extract_tables, comparison_complete,
                   table_extraction_complete, after_queue, uiFrame>>

\* what a worker step leaves alone
workerFrame == <<pathVars, buttonVars, uiFrame>>

\* the first statements of the thread's target.  generate_report (lines
\* 1274-1366) reads the two flags and returns, scheduling nothing, when
\* neither is set; compare_pdfs and extract_tables_only go on.
ThreadBegin ==
    /\ \E t \in ThreadIds :
          /\ threads[t].pc = "started"
          /\ threads' = [threads EXCEPT ![t].pc =
                IF threads[t].kind = "report"
                   /\ ~comparison_complete /\ ~table_extraction_complete
                THEN "ended" ELSE "running"]
    /\ UNCHANGED <<comparison_complete, table_extraction_complete, after_queue,
                   workerFrame>>

\* the thread calls self.update_progress(...) (line 510), not for the last time
EnterProgress ==
    /\ \E t \in ThreadIds :
          /\ threads[t].pc = "running"
          /\ threads' = [threads EXCEPT ![t].pc = "in_update_progress"]
    /\ UNCHANGED <<comparison_complete, table_extraction_complete, after_queue,
                   workerFrame>>

\* update_progress returns (line 521)
ExitProgress ==
    /\ \E t \in ThreadIds :
          /\ threads[t].pc = "in_update_progress"
          /\ threads' = [threads EXCEPT ![t].pc = "running"]
    /\ UNCHANGED <<comparison_complete, table_extraction_complete, after_queue,
                   workerFrame>>

\* the thread calls self.update_progress(100, ...) (lines 954, 1024, 1370)
EnterFinalProgress ==
    /\ \E t \in ThreadIds :
          /\ threads[t].pc = "running"
          /\ threads' = [threads EXCEPT ![t].pc = "in_final_progress"]
    /\ UNCHANGED <<comparison_complete, table_extraction_complete, after_queue,
                   workerFrame>>

\* update_progress(100, ...) returns and the thread runs to its end: the flag
\* of its kind is set (lines 955, 1025) and its completion callback is handed
\* to root.after (lines 980, 1069, 1384)
ThreadComplete ==
    /\ \E t \in ThreadIds :
          /\ threads[t].pc = "in_final_progress"
          /\ threads' = [threads EXCEPT ![t].pc = "ended"]
          /\ comparison_complete' =
                IF threads[t].kind = "compare" THEN TRUE ELSE comparison_complete
          /\ table_extraction_complete' =
                IF threads[t].kind = "tables" THEN TRUE ELSE table_extraction_complete
          /\ after_queue' = Append(after_queue,
                [thread |-> t, kind |-> threads[t].kind, callback |-> "show_completion"])
    /\ UNCHANGED workerFrame

\* a call of the thread raises: the except block hands show_error to
\* root.after (lines 995, 1083, 1396)
ThreadFail ==
    /\ \E t \in ThreadIds :
          /\ threads[t].pc = "running"
          /\ threads' = [threads EXCEPT ![t].pc = "ended"]
          /\ after_queue' = Append(after_queue,
                [thread |-> t, kind |-> threads[t].kind, callback |-> "show_error"])
    /\ UNCHANGED <<comparison_complete, table_extraction_complete, workerFrame>>

\* the main loop runs the oldest callback of root.after: show_completion and
\* show_error of compare_pdfs (lines 958-992) and of extract_tables_only
\* (lines 1040-1081), show_report_completion and show_error of
\* generate_report (lines 1372-1393)
RunCallback ==
    /\ after_queue # <<>>
    /\ LET call == Head(after_queue)
       IN IF call.kind = "report"
          THEN /\ btn_report' = "normal"
               /\ UNCHANGED <<btn_compare, btn_extract_tables>>
          ELSE /\ btn_compare' = "normal"
               /\ btn_extract_tables' = "normal"
               /\ btn_report' =
                     IF call.callback = "show_completion"
                     THEN enable_report_button(comparison_complete,
                                               table_extraction_complete)
                     ELSE btn_report
    /\ after_queue' = Tail(after_queue)
    /\ UNCHANGED <<pathVars, comparison_complete, table_extraction_complete,
                   threads, uiFrame>>

----------------------------------------------------------------------------
(* Specifications                                                          *)

Init == InitMatch

Next == CallCompare \/ CompareIteration \/ FinishCompare

\* compare_content_units on arbitrary unit lists, called MaxRuns times
Spec == Init /\ [][Next]_vars

\* one call of compare_content_units on units at and above similarity 0.7
SpecFloor == InitFloor /\ [][Next]_vars

NextPipeline ==
    ExtractOld \/ ExtractNew \/ CallCompare \/ CompareIteration \/ FinishCompare

\* extraction of both documents followed by one comparison
SpecPipeline == InitPipeline /\ [][NextPipeline]_vars

NextNormalize == PreprocessOnce \/ PreprocessTwice

\* preprocess_text applied once and then to its own result
SpecNormalize == InitNormalize /\ [][NextNormalize]_vars

NextLocate ==
    HighlightEntry \/ ParagraphTier \/ ChunkTier \/ LineTier \/ AnnotateInstances

\* one call of highlight_text_on_page
SpecLocate == InitLocate /\ [][NextLocate]_vars

NextRun ==
    \/ StartComparison \/ OpenOld \/ OpenNew \/ ExtractOld \/ ExtractNew
    \/ BeforeCompare \/ CallCompare \/ CompareIteration \/ FinishCompare
    \/ HighlightRemoved \/ RemovedHighlighted \/ HighlightAdded \/ AddedHighlighted
    \/ SaveOld \/ SaveNew \/ StoreResults \/ ShowCompletion \/ ShowError

\* comparison runs of compare_pdfs, one after the other, on the same two files
SpecRun == InitRun /\ [][NextRun]_vars

NextUI ==
    \/ LoadPdf1 \/ LoadPdf2 \/ ClickCompare \/ ClickExtractTables \/ ClickReport
    \/ ThreadBegin \/ EnterProgress \/ ExitProgress \/ EnterFinalProgress
    \/ ThreadComplete \/ ThreadFail \/ RunCallback

\* the user's actions on the window, the worker threads and the callbacks of
\* the main loop, interleaved
SpecUI == InitUI /\ [][NextUI]_vars

\* the same runs under whatever configuration __init__ was given
SpecConfigured == InitConfigured /\ [][NextRun]_vars

----------------------------------------------------------------------------
(* Properties                                                              *)

Threshold == comparison_config.exact_match_threshold

AtThreshold(similarity) == FracLeq(Threshold, similarity)

\* indices of the pairs recorded at similarity >= exact_match_threshold
ExactPairs == {k \in DOMAIN matched_pairs : AtThreshold(matched_pairs[k].similarity)}

\* indices of the pairs recorded below it (the partial matches)
PartialPairs == DOMAIN matched_pairs \ ExactPairs

ExactOld == {matched_pairs[k].old : k \in ExactPairs}
ExactNew == {matched_pairs[k].new : k \in ExactPairs}

\* a percentage within [0, 100]
InPercentRange(x) == 0 <= x.n /\ x.n <= 100 * x.d

IsZero(x) == x.n = 0

\* C1: after compare_content_units returns, every old position is either in
\* removed or matched at similarity >= exact_match_threshold, never both and
\* never neither, and len(removed) + (at-threshold matches) = len(old_units).
C1_OldPartition ==
    pc = "returned" =>
        /\ Range(removed) \cap ExactOld = {}
        /\ Range(removed) \cup ExactOld = 1..Len(old_units)
        /\ \A k \in 1..Len(old_units) : old_matched[k] <=> k \in ExactOld
        /\ Cardinality(Range(removed)) = Len(removed)
        /\ Len(removed) + Cardinality(ExactPairs) = Len(old_units)

\* a returned comparison with an at-threshold match and a removed unit that
\* has a partial pair
C1_Witness ==
    /\ pc = "returned"
    /\ ExactPairs # {}
    /\ \E k \in PartialPairs : matched_pairs[k].old \in Range(removed)

\* C2: after compare_content_units returns, every new position is either in
\* added or consumed by an at-threshold match, never both and never neither; a
\* new unit that took part only in partial pairs is in added, and
\* len(added) = len(new_units) - (at-threshold matches).
C2_NewPartition ==
    pc = "returned" =>
        /\ Range(added) \cap ExactNew = {}
        /\ Range(added) \cup ExactNew = 1..Len(new_units)
        /\ Cardinality(Range(added)) = Len(added)
        /\ Cardinality(ExactNew) = Cardinality(ExactPairs)
        /\ \A k \in PartialPairs :
               matched_pairs[k].new \notin ExactNew => matched_pairs[k].new \in Range(added)
        /\ Len(added) = Len(new_units) - Cardinality(ExactPairs)

\* a returned comparison with an at-threshold match and a new unit that only
\* took part in a partial pair
C2_Witness ==
    /\ pc = "returned"
    /\ ExactPairs # {}
    /\ \E k \in PartialPairs :
           matched_pairs[k].new \notin ExactNew /\ matched_pairs[k].new \in Range(added)

\* C3: for non-empty old_units and new_units each of the four metrics that
\* compare_content_units returns lies in [0, 100].
C3_MetricsInRange ==
    (pc = "returned" /\ old_units # <<>> /\ new_units # <<>>) =>
        /\ InPercentRange(similarity_scores.avg_content_similarity)
        /\ InPercentRange(similarity_scores.document_similarity)
        /\ InPercentRange(similarity_scores.retention_rate)
        /\ InPercentRange(similarity_scores.text_similarity)

\* C4: each metric is exactly 0 whenever its own denominator is zero: the
\* average with no pair, document_similarity when len(old) + len(new) - matched
\* is 0, retention_rate with no old unit, text_similarity when both joined
\* texts are empty.
C4_ZeroDenominators ==
    pc = "returned" =>
        /\ matched_pairs = <<>> => IsZero(similarity_scores.avg_content_similarity)
        /\ Len(old_units) + Len(new_units) - Len(matched_pairs) = 0
               => IsZero(similarity_scores.document_similarity)
        /\ old_units = <<>> => IsZero(similarity_scores.retention_rate)
        /\ Len(JoinedText(old_units)) + Len(JoinedText(new_units)) = 0
               => IsZero(similarity_scores.text_similarity)

\* similarity of the old unit at position k with the new unit at position p
SimilarityOf(k, p) == Ratio(old_units[k].text, new_units[p].text)

\* 1-based places in unmatched_new whose candidate reaches the threshold for
\* the old unit at position k
QualifyingPlaces(k) ==
    {c \in 1..Len(unmatched_new) : AtThreshold(SimilarityOf(k, unmatched_new[c]))}

\* C5: in every iteration of the outer loop, if some candidate of the current
\* unmatched list reaches the threshold, the first such candidate in list
\* order is the one paired and popped, whatever the later similarities are,
\* and no candidate after it is examined.
C5_FirstQualifyingWins ==
    [][(pc = "loop" /\ i < Len(old_units) /\ i' = i + 1) =>
          LET places == QualifyingPlaces(i + 1)
          IN /\ found_match' <=> places # {}
             /\ places # {} =>
                  LET first == Least(places)
                  IN /\ examined' = first
                     /\ unmatched_new' = SubSeq(unmatched_new, 1, first - 1)
                                         \o SubSeq(unmatched_new, first + 1,
                                                   Len(unmatched_new))
                     /\ matched_pairs' =
                          Append(matched_pairs,
                                 [old |-> i + 1, new |-> unmatched_new[first],
                                  similarity |-> SimilarityOf(i + 1, unmatched_new[first])])
                     /\ old_matched'[i + 1]
    ]_vars

\* an iteration that matched a candidate although a candidate after it in the
\* list, left unmatched, is strictly more similar to the old unit
C5_Witness ==
    /\ pc = "loop"
    /\ i >= 1
    /\ found_match
    /\ \E c \in examined..Len(unmatched_new) :
           FracLess(matched_pairs[Len(matched_pairs)].similarity,
                    SimilarityOf(i, unmatched_new[c]))

\* C6: every call of compare_content_units on the same old_units, new_units
\* and configuration returns the same removed, added, metrics and pairs, in
\* the same order, whatever the call before left behind.
C6_Deterministic ==
    \A k \in DOMAIN returned : returned[k] = returned[1]

\* a second call has returned, with a removed unit and a recorded pair
C6_Witness ==
    /\ pc = "returned"
    /\ Len(returned) >= 2
    /\ returned[2].removed # <<>>
    /\ returned[2].similarity_scores.matched_content_pairs # <<>>

\* C7: preprocess_text applied to its own result changes nothing, with
\* enable_enhanced_preprocessing true and with it false.
C7_Idempotent ==
    pc = "normalized" => nz_twice = nz_once

\* enhanced preprocessing changed a string into a non-empty one (and was
\* applied again)
C7_Witness ==
    /\ pc = "normalized"
    /\ comparison_config.enable_enhanced_preprocessing
    /\ nz_once # nz_text
    /\ nz_once # <<>>
    /\ Len(nz_once) < Len(nz_text)

\* the processed text of a paragraph under the configuration in force
Processed(paragraph) ==
    preprocess_text(paragraph, comparison_config.enable_enhanced_preprocessing)

MinLength == comparison_config.min_meaningful_text_length

\* paragraphs of page p (1-based) of a document
ParagraphsOf(text_by_page, p) == SplitParagraphs(text_by_page[p])

\* a document's paragraphs whose processed text is not longer than MinLength
\* are on no unit; units are the extracted units of that document
NoShortParagraph(text_by_page, units) ==
    \A p \in DOMAIN text_by_page :
        \A q \in DOMAIN ParagraphsOf(text_by_page, p) :
            Len(Processed(ParagraphsOf(text_by_page, p)[q])) <= MinLength =>
                ~\E k \in DOMAIN units :
                     /\ units[k].page = p - 1
                     /\ units[k].original = ParagraphsOf(text_by_page, p)[q]

OldExtracted == pc \notin {"extract_old"}
NewExtracted == pc \notin {"extract_old", "extract_new"}

\* C8: every unit extract_content_units returns has a processed text strictly
\* longer than min_meaningful_text_length, and a paragraph whose processed
\* text is that long or shorter is never emitted.
C8_UnitsMeaningful ==
    /\ \A k \in DOMAIN old_units : Len(old_units[k].text) > MinLength
    /\ \A k \in DOMAIN new_units : Len(new_units[k].text) > MinLength
    /\ OldExtracted => NoShortParagraph(old_text, old_units)
    /\ NewExtracted => NoShortParagraph(new_text, new_units)

\* both documents are extracted, units were emitted, and a paragraph whose
\* processed text is exactly min_meaningful_text_length long was dropped
C8_Witness ==
    /\ NewExtracted
    /\ old_units # <<>>
    /\ \E p \in DOMAIN old_text :
           \E q \in DOMAIN ParagraphsOf(old_text, p) :
               Len(Processed(ParagraphsOf(old_text, p)[q])) = MinLength

\* the originals of the units of 0-based page pn, in unit order
RECURSIVE OriginalsOfPage(_, _)
OriginalsOfPage(units, pn) ==
    IF units = <<>> THEN <<>>
    ELSE IF Head(units).page = pn
         THEN <<Head(units).original>> \o OriginalsOfPage(Tail(units), pn)
         ELSE OriginalsOfPage(Tail(units), pn)

\* units are in page order and, within a page, in paragraph order
InDocumentOrder(text_by_page, units) ==
    /\ \A k \in 1..(Len(units) - 1) : units[k].page <= units[k + 1].page
    /\ \A k \in DOMAIN units : units[k].page + 1 \in DOMAIN text_by_page
    /\ \A p \in DOMAIN text_by_page :
           IsSubseq(OriginalsOfPage(units, p - 1), ParagraphsOf(text_by_page, p))

\* C9: extract_content_units emits units with non-decreasing page index and
\* in paragraph order within a page, and the removed and added lists that
\* compare_content_units returns are subsequences of old_units and new_units,
\* the surviving units keeping their relative order.
C9_OrderPreserved ==
    /\ OldExtracted => InDocumentOrder(old_text, old_units)
    /\ NewExtracted => InDocumentOrder(new_text, new_units)
    /\ pc = "returned" =>
          /\ StrictlyIncreasing(removed)
          /\ StrictlyIncreasing(added)
          /\ Range(removed) \subseteq DOMAIN old_units
          /\ Range(added) \subseteq DOMAIN new_units
          /\ IsSubseq(returned[Len(returned)].removed, old_units)
          /\ IsSubseq(returned[Len(returned)].added, new_units)

\* a returned comparison of two extracted documents: an old page with two
\* units, old units on two pages, two units removed, and two units added
\* after an earlier new unit was matched and popped
C9_Witness ==
    /\ pc = "returned"
    /\ old_text # <<>>
    /\ \E k \in 1..(Len(old_units) - 1) : old_units[k].page = old_units[k + 1].page
    /\ \E k \in 1..(Len(old_units) - 1) : old_units[k].page < old_units[k + 1].page
    /\ Len(removed) >= 2
    /\ Len(added) >= 2
    /\ \E p \in ExactNew : p < added[1]

SameTexts ==
    /\ Len(old_units) = Len(new_units)
    /\ Len(old_units) >= 1
    /\ \A k \in DOMAIN old_units : old_units[k].text = new_units[k].text

\* C10: when old_units and new_units hold the same processed texts in the same
\* order (duplicates allowed), old unit k is matched to new unit k at
\* similarity 1.0 for every k, removed and added are empty and retention_rate
\* is 100.
C10_IdenticalSequences ==
    (pc = "returned" /\ SameTexts) =>
        /\ Len(matched_pairs) = Len(old_units)
        /\ \A k \in DOMAIN matched_pairs :
               /\ matched_pairs[k].old = k
               /\ matched_pairs[k].new = k
               /\ matched_pairs[k].similarity.n = matched_pairs[k].similarity.d
        /\ removed = <<>>
        /\ added = <<>>
        /\ similarity_scores.retention_rate.n = 100 * similarity_scores.retention_rate.d

\* a returned comparison of a list with itself: two units with the same text
C10_Witness ==
    /\ pc = "returned"
    /\ SameTexts
    /\ Len(old_units) >= 2
    /\ old_units[1].text = old_units[2].text

FracEq(x, y) == x.n * y.d = y.n * x.d

\* the positions 1..n in order: a whole unit list, by position
AllPositions(units) == [k \in 1..Len(units) |-> k]

\* C11: compare_content_units accepts an empty list on either side.  With
\* new_units empty, removed is old_units in order, added is empty, no pair is
\* recorded and retention_rate and document_similarity are 0; with old_units
\* empty, added is new_units in order, removed is empty and retention_rate is
\* 0.  The call returns in both cases.
C11_EmptyInput ==
    pc = "returned" =>
        /\ new_units = <<>> =>
              /\ removed = AllPositions(old_units)
              /\ added = <<>>
              /\ matched_pairs = <<>>
              /\ IsZero(similarity_scores.retention_rate)
              /\ IsZero(similarity_scores.document_similarity)
              /\ returned[Len(returned)].removed = old_units
        /\ old_units = <<>> =>
              /\ added = AllPositions(new_units)
              /\ removed = <<>>
              /\ IsZero(similarity_scores.retention_rate)
              /\ returned[Len(returned)].added = new_units

\* a returned comparison of two old units with an empty new list
C11_Witness ==
    /\ pc = "returned"
    /\ new_units = <<>>
    /\ Len(old_units) >= 2
    /\ Len(removed) = Len(old_units)

\* C18: document_similarity is len(matched_pairs) /
\* (len(old_units) + len(new_units) - len(matched_pairs)) * 100, the partial
\* pairs counted like the at-threshold ones, whenever that denominator is not 0.
C18_DocumentSimilarity ==
    pc = "returned" =>
        LET matchedCount == Len(matched_pairs)
            denominator == Len(old_units) + Len(new_units) - matchedCount
        IN denominator # 0 =>
              FracEq(similarity_scores.document_similarity,
                     Frac(matchedCount * 100, denominator))

\* a returned comparison with an at-threshold pair, a partial pair and two new
\* units
C18_Witness ==
    /\ pc = "returned"
    /\ ExactPairs # {}
    /\ PartialPairs # {}
    /\ Len(new_units) >= 2
    /\ ~IsZero(similarity_scores.document_similarity)

\* C19: for non-empty old_units, retention_rate is
\* (len(old_units) - len(removed)) / len(old_units) * 100, which is the share
\* of old units matched at or above the threshold: a partial pair adds nothing.
C19_RetentionRate ==
    (pc = "returned" /\ old_units # <<>>) =>
        /\ FracEq(similarity_scores.retention_rate,
                  Frac((Len(old_units) - Len(removed)) * 100, Len(old_units)))
        /\ FracEq(similarity_scores.retention_rate,
                  Frac(Cardinality(ExactPairs) * 100, Len(old_units)))

\* a returned comparison where one old unit is kept and another has only a
\* partial pair: retention_rate is strictly between 0 and 100
C19_Witness ==
    /\ pc = "returned"
    /\ PartialPairs # {}
    /\ ~IsZero(similarity_scores.retention_rate)
    /\ similarity_scores.retention_rate.n < 100 * similarity_scores.retention_rate.d

\* similarities of the old unit at position k with the candidates of the
\* current unmatched list
CandidateSimilarities(k) ==
    {SimilarityOf(k, unmatched_new[c]) : c \in 1..Len(unmatched_new)}

GreatestFrac(S) == CHOOSE x \in S : \A y \in S : FracLeq(y, x)

\* C20: in an iteration where no candidate of the unmatched list reaches the
\* threshold and the greatest similarity is > 0.7, exactly one pair is
\* appended, of old unit i with a candidate of that greatest similarity, old
\* unit i is appended to removed, and unmatched_new is left as it was.
C20_PartialMatchRecorded ==
    [][(pc = "loop" /\ i < Len(old_units) /\ i' = i + 1) =>
          LET sims == CandidateSimilarities(i + 1)
          IN (QualifyingPlaces(i + 1) = {} /\ sims # {}
              /\ FracLess(PartialMatchFloor, GreatestFrac(sims))) =>
                 /\ Len(matched_pairs') = Len(matched_pairs) + 1
                 /\ SubSeq(matched_pairs', 1, Len(matched_pairs)) = matched_pairs
                 /\ LET pair == matched_pairs'[Len(matched_pairs')]
                    IN /\ pair.old = i + 1
                       /\ pair.new \in Range(unmatched_new)
                       /\ FracEq(pair.similarity, SimilarityOf(i + 1, pair.new))
                       /\ FracEq(pair.similarity, GreatestFrac(sims))
                 /\ removed' = Append(removed, i + 1)
                 /\ unmatched_new' = unmatched_new
    ]_vars

\* a new unit that was the new side of a partial pair, whose old unit is in
\* removed, and was then matched at the threshold by a later old unit
C20_Witness ==
    \E a \in PartialPairs, b \in ExactPairs :
        /\ a < b
        /\ matched_pairs[a].new = matched_pairs[b].new
        /\ matched_pairs[a].old \in Range(removed)
        /\ matched_pairs[a].new \notin Range(unmatched_new)

\* the queries of one tier, in the order they were submitted
QueriesOf(tier) ==
    LET OfTier(q) == q.tier = tier
        picked == SelectSeq(queries, OfTier)
    IN [k \in DOMAIN picked |-> picked[k].query]

ChunkSize == comparison_config.fuzzy_chunk_size

\* query is words[offset : offset + ChunkSize] of one sentence of the text,
\* joined by blanks, for an offset that is a multiple of ChunkSize
IsFullWindow(query) ==
    \E s \in Range(SplitSentences(Strip(hl_text))) :
        LET words == Words(Strip(s))
        IN \E m \in 0..Len(words) :
              /\ m * ChunkSize + ChunkSize <= Len(words)
              /\ query = Sentence(Slice(words, m * ChunkSize, m * ChunkSize + ChunkSize))

\* find_text_on_page has returned and its first two tiers hit nothing with
\* fuzzy enabled: the chunk tier was run
ChunkTierRan ==
    /\ pc \in {"found", "highlighted"}
    /\ Strip(hl_text) # <<>>
    /\ hl_fuzzy
    /\ \A k \in DOMAIN queries :
          queries[k].tier \in {"whole", "paragraph", "sentence"}
              => search_for(hl_page, queries[k].query) = <<>>

\* C12: every query of the chunk tier is a window of exactly fuzzy_chunk_size
\* consecutive words of a sentence, starting at a word offset that is a
\* multiple of fuzzy_chunk_size; a shorter trailing window is never
\* submitted.  For the 8-word sentence and chunk size 5 the tier searches the
\* first five words and nothing else.
C12_ChunkWindows ==
    /\ \A k \in DOMAIN QueriesOf("chunk") :
          /\ IsFullWindow(QueriesOf("chunk")[k])
          /\ Len(Words(QueriesOf("chunk")[k])) = ChunkSize
    /\ (Strip(hl_text) = SentenceD /\ ChunkSize = 5) =>
          /\ ChunkTierRan => QueriesOf("chunk") = <<WindowD>>
          /\ ~ChunkTierRan => QueriesOf("chunk") = <<>>

\* the 8-word sentence located with chunk size 5 on a page that shows its
\* first five words only: the one window was searched, and found
C12_Witness ==
    /\ pc = "highlighted"
    /\ hl_text = SentenceD
    /\ ChunkSize = 5
    /\ QueriesOf("chunk") = <<WindowD>>
    /\ QueriesOf("line") = <<>>
    /\ hl_result = "True"

\* the lines the line tier may search: the stripped lines of the text that are
\* longer than min_meaningful_text_length, in order
MeaningfulLines ==
    LET lines == SplitOn(hl_text, <<"\n">>)
        stripped == [k \in DOMAIN lines |-> Strip(lines[k])]
        IsMeaningful(line) == Len(line) > MinLength
    IN SelectSeq(stripped, IsMeaningful)

\* highlight_text_on_page has returned after find_text_on_page gave nothing
LineTierRan ==
    /\ pc = "highlighted"
    /\ Strip(hl_text) # <<>>
    /\ instances = <<>>

\* C13: in the line tier the meaningful lines are searched in order, and the
\* first one whose search is not empty ends the tier: no later line is
\* searched and True is returned; without such a line all are searched and
\* False is returned.
C13_LineTierStopsAtFirstHit ==
    /\ LineTierRan =>
          LET hits == {k \in DOMAIN MeaningfulLines :
                          search_for(hl_page, MeaningfulLines[k]) # <<>>}
          IN IF hits = {}
             THEN QueriesOf("line") = MeaningfulLines /\ hl_result = "False"
             ELSE /\ QueriesOf("line") = SubSeq(MeaningfulLines, 1, Least(hits))
                  /\ hl_result = "True"
    /\ ~LineTierRan => QueriesOf("line") = <<>>

\* three lines of which the page shows the second only: the first two lines
\* were searched, the third never
C13_Witness ==
    /\ LineTierRan
    /\ MeaningfulLines = <<LineOne, LineTwo, LineThree>>
    /\ search_for(hl_page, LineOne) = <<>>
    /\ search_for(hl_page, LineThree) = <<>>
    /\ QueriesOf("line") = <<LineOne, LineTwo>>
    /\ \A k \in DOMAIN queries : queries[k].query # LineThree
    /\ hl_result = "True"

\* the callbacks the current run handed to root.after, in order
ScheduledByRun ==
    LET OfRun(n) == n.run = run
        picked == SelectSeq(notifications, OfRun)
    IN [k \in DOMAIN picked |-> picked[k].callback]

\* C14: when the extraction, the page search, the annotation or the save
\* raises in compare_pdfs, the run is aborted as a whole: comparison_complete
\* stays False, self.old_doc, new_doc, removed, added and similarity_scores
\* keep the values they had before the run, and exactly one show_error (and no
\* show_completion) is scheduled.
C14_AbortAllOrNothing ==
    /\ pc = "failed" =>
          /\ error_text \in {"extract", "search raised", "annotate raised", "save"}
          /\ ~comparison_complete
          /\ stored = stored_before
          /\ ScheduledByRun = <<"show_error">>
    /\ (run >= 1 /\ pc \notin {"finished", "failed", "ready"}) =>
          /\ ~comparison_complete
          /\ stored = stored_before
          /\ ScheduledByRun = <<>>

\* a second run whose save of the new document raised after the old one was
\* written: the results of the first run are still the stored ones
C14_Witness ==
    /\ pc = "failed"
    /\ error_text = "save"
    /\ saved = {"old"}
    /\ run = 2
    /\ stored.old_doc = Some(1)
    /\ hl_outcomes # <<>>

\* C15: a failure while locating or highlighting one removed or added unit,
\* be it an exception of the locate call or an empty result, is isolated: the
\* run is not aborted by it, every remaining unit is processed and the run
\* completes.
C15_UnitFailureIsolated ==
    /\ pc = "failed" => error_text \notin {"search raised", "annotate raised"}
    /\ pc = "finished" => Len(hl_outcomes) = Len(removed) + Len(added)

\* exact_match_threshold in (0, 1] and fuzzy_chunk_size >= 1
ValidConfig(config) ==
    /\ FracLess(Frac(0, 1), config.exact_match_threshold)
    /\ FracLeq(config.exact_match_threshold, Frac(1, 1))
    /\ config.fuzzy_chunk_size >= 1

InUpdateProgress ==
    {t \in ThreadIds : threads[t].pc \in {"in_update_progress", "in_final_progress"}}

\* C17: update_progress never runs concurrently with itself: whatever the
\* user does and however the workers interleave, at most one invocation of
\* update_progress is under way.
C17_ProgressNotReentrant == Cardinality(InUpdateProgress) <= 1

\* C21: in an iteration where the unmatched list is empty or the greatest
\* similarity of old unit i with its candidates is <= 0.7 (exactly 0.7
\* included), old unit i is appended to removed, no pair is recorded, and
\* unmatched_new is left as it was.
C21_BelowFloorRemoved ==
    [][(pc = "loop" /\ i < Len(old_units) /\ i' = i + 1) =>
          LET sims == CandidateSimilarities(i + 1)
          IN (sims = {} \/ FracLeq(GreatestFrac(sims), PartialMatchFloor)) =>
                 /\ matched_pairs' = matched_pairs
                 /\ removed' = Append(removed, i + 1)
                 /\ unmatched_new' = unmatched_new
                 /\ ~found_match'
    ]_vars

\* an iteration whose best candidate had similarity exactly 0.7: the old unit
\* is the last of removed and the new side of no pair
C21_Witness ==
    /\ pc = "loop"
    /\ i >= 1
    /\ ~found_match
    /\ best_match_idx >= 0
    /\ FracEq(best_similarity, PartialMatchFloor)
    /\ removed # <<>> /\ removed[Len(removed)] = i
    /\ \A k \in DOMAIN matched_pairs : matched_pairs[k].old # i

\* C22: a new unit paired at similarity >= exact_match_threshold is no longer
\* in unmatched_new, is the new side of no other pair at the threshold, and
\* is the new side of no pair, exact or partial, recorded after that one
\* (pairs are recorded in the order the old units are processed).
C22_ConsumedNeverReclaimed ==
    \A a \in ExactPairs :
        /\ matched_pairs[a].new \notin Range(unmatched_new)
        /\ \A b \in ExactPairs : b # a => matched_pairs[b].new # matched_pairs[a].new
        /\ \A b \in DOMAIN matched_pairs :
               b > a => /\ matched_pairs[b].old > matched_pairs[a].old
                        /\ matched_pairs[b].new # matched_pairs[a].new

\* a later old unit that reaches the threshold with a consumed new unit and
\* was classified as removed all the same
C22_Witness ==
    /\ pc = "loop"
    /\ \E a \in ExactPairs :
          \E k \in Range(removed) :
              /\ k > matched_pairs[a].old
              /\ AtThreshold(SimilarityOf(k, matched_pairs[a].new))

\* the rectangles the searches of the given tiers returned, in the order the
\* queries were submitted
RECURSIVE HitsFrom(_, _)
HitsFrom(tiers, k) ==
    IF k > Len(queries) THEN <<>>
    ELSE (IF queries[k].tier \in tiers
          THEN search_for(hl_page, queries[k].query) ELSE <<>>)
         \o HitsFrom(tiers, k + 1)

HitsOf(tiers) == HitsFrom(tiers, 1)

\* find_text_on_page has returned
FindReturned == pc \in {"found", "highlighted"} /\ Strip(hl_text) # <<>>

\* C23: when the search of the whole stripped text is not empty,
\* find_text_on_page returns exactly its rectangles, and the whole text is
\* the only query ever submitted.
C23_WholeTextReturnsAtOnce ==
    (FindReturned /\ search_for(hl_page, Strip(hl_text)) # <<>>) =>
        /\ instances = search_for(hl_page, Strip(hl_text))
        /\ queries = <<[tier |-> "whole", query |-> Strip(hl_text)]>>

\* a whole text found twice on the page, its sentence long enough for the
\* later tiers to search it
C23_Witness ==
    /\ pc = "highlighted"
    /\ Len(Strip(hl_text)) > FuzzySentenceFloor
    /\ hl_fuzzy
    /\ Len(search_for(hl_page, Strip(hl_text))) = 2
    /\ Len(annotations) = 2
    /\ Len(queries) = 1

\* the paragraphs of the text that are not blank, stripped, in order
SearchedParagraphs ==
    LET paragraphs == SplitOn(Strip(hl_text), <<"\n", "\n">>)
        stripped == [k \in DOMAIN paragraphs |-> Strip(paragraphs[k])]
        NotBlank(p) == p # <<>>
    IN SelectSeq(stripped, NotBlank)

\* the stripped sentences of a paragraph that are longer than
\* min_meaningful_text_length, in order
SearchedSentences(paragraph) ==
    LET sentences == SplitSentences(paragraph)
        stripped == [k \in DOMAIN sentences |-> Strip(sentences[k])]
        IsMeaningful(sentence) == Len(sentence) > MinLength
    IN SelectSeq(stripped, IsMeaningful)

\* the queries one paragraph gives rise to: itself and, when the page does
\* not show it, its meaningful sentences
QueriesFor(paragraph) ==
    <<[tier |-> "paragraph", query |-> paragraph]>>
    \o (IF search_for(hl_page, paragraph) = <<>>
        THEN [k \in DOMAIN SearchedSentences(paragraph) |->
                 [tier |-> "sentence", query |-> SearchedSentences(paragraph)[k]]]
        ELSE <<>>)

RECURSIVE QueriesForFrom(_)
QueriesForFrom(k) ==
    IF k > Len(SearchedParagraphs) THEN <<>>
    ELSE QueriesFor(SearchedParagraphs[k]) \o QueriesForFrom(k + 1)

InParagraphTier(q) == q.tier \in {"paragraph", "sentence"}

\* C24: once the whole text was searched in vain, the paragraph tier
\* searches every paragraph that is not blank, in order, hit or no hit; the
\* meaningful sentences of a paragraph right after it and only when the
\* paragraph itself was not found; and what find_text_on_page returns, unless
\* the chunk tier searched, is the concatenation of the rectangles of these
\* searches in the order they were made.
C24_ParagraphTierAccumulates ==
    (FindReturned /\ search_for(hl_page, Strip(hl_text)) = <<>>) =>
        /\ SelectSeq(queries, InParagraphTier) = QueriesForFrom(1)
        /\ QueriesOf("chunk") = <<>> => instances = HitsOf({"paragraph", "sentence"})

\* the first paragraph was found, the second was not, its short sentence was
\* skipped and its last sentence was found: the rectangles are returned in
\* the order of the searches, not in the order of the page
C24_Witness ==
    /\ pc = "highlighted"
    /\ hl_text = TextSentences
    /\ QueriesOf("paragraph") = <<LineThree, LineOne \o <<".", " ">> \o TextShort
                                              \o <<"!", " ">> \o LineTwo>>
    /\ QueriesOf("sentence") = <<LineOne \o <<".">>, LineTwo>>
    /\ instances = <<2, 1>>
    /\ Len(annotations) = 2

\* C25: a tier submits queries only after every search of the tiers before
\* it came back empty: paragraphs and sentences after the whole text, chunks
\* after those and only with fuzzy enabled, lines after all of them; and
\* when every search of the call came back empty, nothing is annotated and
\* highlight_text_on_page returns False.
C25_TiersCascade ==
    /\ QueriesOf("paragraph") \o QueriesOf("sentence") # <<>>
           => HitsOf({"whole"}) = <<>>
    /\ QueriesOf("chunk") # <<>>
           => hl_fuzzy /\ HitsOf({"whole", "paragraph", "sentence"}) = <<>>
    /\ QueriesOf("line") # <<>>
           => HitsOf({"whole", "paragraph", "sentence", "chunk"}) = <<>>
    /\ (pc = "highlighted"
        /\ HitsOf({"whole", "paragraph", "sentence", "chunk", "line"}) = <<>>)
           => annotations = <<>> /\ hl_result = "False"

\* a call that went through every tier and found nothing
C25_Witness ==
    /\ pc = "highlighted"
    /\ QueriesOf("whole") # <<>>
    /\ QueriesOf("paragraph") # <<>>
    /\ QueriesOf("sentence") # <<>>
    /\ QueriesOf("chunk") # <<>>
    /\ QueriesOf("line") # <<>>
    /\ annotations = <<>>
    /\ hl_result = "False"

\* the meaningful lines of the text that the page shows, in order
FoundLines ==
    LET IsFound(line) == search_for(hl_page, line) # <<>>
    IN SelectSeq(MeaningfulLines, IsFound)

\* the rectangles annotated by the call, in order
AnnotatedRects == [k \in DOMAIN annotations |-> annotations[k].rect]

\* C30: a call that fell back to the line tier adds at most one annotation,
\* on the first rectangle of the first meaningful line the page shows, and
\* none when there is no such line; a call for which find_text_on_page
\* returned rectangles annotates every one of them, in order.
C30_LineTierAnnotatesOne ==
    /\ LineTierRan =>
          /\ Len(annotations) <= 1
          /\ FoundLines # <<>> =>
                 AnnotatedRects = <<search_for(hl_page, FoundLines[1])[1]>>
          /\ FoundLines = <<>> => annotations = <<>>
    /\ (pc = "highlighted" /\ instances # <<>>) => AnnotatedRects = instances

\* a line tier whose first found line is shown twice by the page: one of its
\* two rectangles is annotated
C30_Witness ==
    /\ LineTierRan
    /\ FoundLines # <<>>
    /\ Len(search_for(hl_page, FoundLines[1])) = 2
    /\ Len(annotations) = 1
    /\ hl_result = "True"

\* the workers of one kind that were started and have not run to their end
RunningWorkers(kinds) ==
    {t \in ThreadIds : threads[t].kind \in kinds /\ threads[t].pc \notin {"none", "ended"}}

\* C26: while a comparison worker is running, Compare PDFs and Extract Tables
\* are disabled whatever the user does, so at most one comparison or
\* table-extraction worker is running at a time.
C26_ButtonsDisabledWhileComparing ==
    /\ RunningWorkers({"compare"}) # {}
           => btn_compare = "disabled" /\ btn_extract_tables = "disabled"
    /\ Cardinality(RunningWorkers({"compare", "tables"})) <= 1

\* no worker is running and no callback waits in root.after
Quiescent == RunningWorkers({"compare", "tables", "report"}) = {} /\ after_queue = <<>>

\* C27: in every quiescent state Generate Report is enabled exactly when
\* comparison_complete or table_extraction_complete is set, whatever runs
\* came before and however they ended.
C27_ReportButtonMatchesFlags ==
    Quiescent =>
        (btn_report = "normal" <=> (comparison_complete \/ table_extraction_complete))

\* the percent values of the run's update_progress calls, in call order
ProgressValues == [k \in DOMAIN progress |-> progress[k].value]

\* C29: within one comparison run, no other worker running, the values
\* passed to update_progress never decrease and lie in [0, 100]; 100 is
\* passed only once both highlighted documents are saved and while
\* comparison_complete is still False, and the flag is set only after it.
C29_ProgressMonotone ==
    /\ \A k \in DOMAIN progress :
          /\ InPercentRange(progress[k].value)
          /\ k > 1 => FracLeq(progress[k - 1].value, progress[k].value)
          /\ FracEq(progress[k].value, Frac(100, 1))
                 => progress[k].saved = {"old", "new"} /\ ~progress[k].complete
    /\ comparison_complete =>
          /\ progress # <<>>
          /\ FracEq(progress[Len(progress)].value, Frac(100, 1))

\* a completed run that highlighted two removed units: 60, 60 and 67.5 were
\* reported in the loop, and 100 last
C29_Witness ==
    /\ pc = "finished"
    /\ comparison_complete
    /\ \E k \in DOMAIN progress : FracEq(progress[k].value, Frac(135, 2))
    /\ \E k \in DOMAIN progress :
          /\ k > 1
          /\ FracEq(progress[k].value, Frac(60, 1))
          /\ FracEq(progress[k - 1].value, Frac(60, 1))
    /\ FracEq(progress[Len(progress)].value, Frac(100, 1))

\* the step runs the callback `call` of a comparison run
RunsCallbackOf(call) ==
    /\ after_queue # <<>>
    /\ Head(after_queue) = call
    /\ after_queue' = Tail(after_queue)
    /\ call.kind = "compare"

\* C28: a comparison run hands exactly one callback, show_completion or
\* show_error, to the main loop when it ends; when that callback has run,
\* Compare PDFs and Extract Tables are enabled, and comparison_complete is
\* True only if the callback was show_completion.
C28_RunEndsInOneCallback ==
    [][/\ \A t \in ThreadIds :
             (threads[t].kind = "compare" /\ threads[t].pc # "ended"
              /\ threads'[t].pc = "ended") =>
                 \E callback \in {"show_completion", "show_error"} :
                     after_queue' = Append(after_queue,
                         [thread |-> t, kind |-> "compare", callback |-> callback])
       /\ \A call \in Range(after_queue) :
             RunsCallbackOf(call) =>
                 /\ btn_compare' = "normal"
                 /\ btn_extract_tables' = "normal"
                 /\ comparison_complete' => call.callback = "show_completion"
    ]_vars

============================================================================
